---- MODULE Spec2Model ----
(***************************************************************************)
(* tiny_coro: an M:N coroutine scheduler.  The model covers the task       *)
(* handle and its reference count (task.h), the scheduler's global queue   *)
(* and the worker loop (scheduler.h, queue.h), the reactor's timer heap    *)
(* and I/O registrations (scheduler.h, socket.h), AsyncMutex               *)
(* (async_mutex.h) and Channel (channel.h).                                *)
(*                                                                         *)
(* A task is a coroutine frame.  Its body is a short program, a sequence   *)
(* of operations (prog), executed by whichever worker thread resumed it.   *)
(* Every step that the code performs under one std::mutex, or that is one  *)
(* atomic instruction, is one action; the steps of Task::resume and of     *)
(* the Task destructor are separate actions, so that other threads         *)
(* interleave with them as they do in the code.                            *)
(*                                                                         *)
(* A coroutine frame that was destroyed is "freed".  Every later access    *)
(* to it through a handle that is still around is undefined behaviour:     *)
(* the access observes any value (what the frame held, or garbage), or     *)
(* it crashes the process.                                                 *)
(***************************************************************************)
EXTENDS Integers, Sequences, FiniteSets, TLC

\* ------------------------------------------------------------------ bounds
NumTasks == 3
NumWorkers == 2

Tasks == 1..NumTasks
Workers == 1..NumWorkers
NoTask == 0

\* The value a task sends with its i-th operation; std::nullopt; and what a
\* read of a destroyed frame may yield in place of the value stored there.
Val(t, i) == 10 * t + i
None == 0
Garbage == -1

VARIABLES
  prog,           \* prog[t]: the body of task t, a sequence of operations
  ip,             \* ip[t]: index of the operation the body is at (0: initial suspend)
  ph,             \* ph[t]: "ready" | "susp" | "wait" | "res", the phase of the co_await
  done,           \* done[t]: the coroutine is at its final suspend point
  frame,          \* frame[t]: "none" | "live" | "freed"
  ref_count,      \* Promise::ref_count
  is_running,     \* Promise::is_running
  destroyed,      \* destroyed[t]: how many times handle.destroy() ran on t
  global_queue_,  \* Scheduler::global_queue_: a sequence of task handles
  wpc,            \* wpc[w]: where worker w is in run_once / Task::resume
  wtask,          \* wtask[w]: the handle worker w holds (std::optional<Task> task)
  crashed,        \* the process died on an access to a freed frame
  timers_,        \* Reactor::timers_: the handles in the timer heap
  io_reg,         \* the handles registered with the poller
  locked_,        \* AsyncMutex::locked_
  waiters_,       \* AsyncMutex::waiters_, a FIFO of handles
  guards,         \* guards[t]: owns_lock_ of the ScopedLocks in scope in t, oldest first
  counter,        \* the shared counter the tasks increment under the mutex
  acquired,       \* number of ScopedLocks returned by await_resume
  unlock_calls,   \* number of calls of AsyncMutex::unlock
  enq_count,      \* number of handles pushed on waiters_ so far
  ticket,         \* ticket[t]: the value of enq_count when waiting t was pushed, else 0
  grant_count,    \* number of handles popped from waiters_ by unlock so far
  last_grant,     \* the ticket of the handle unlock popped last
  capacity_,      \* Channel::capacity_
  closed_,        \* Channel::closed_
  buffer_,        \* Channel::buffer_, a FIFO of values
  send_waiters_,  \* Channel::send_waiters_: the suspended senders (handle, &value)
  recv_waiters_,  \* Channel::recv_waiters_: the suspended receivers (handle, &result)
  send_result,    \* send_result[t]: SendAwaiter::result in the frame of t
  recv_result,    \* recv_result[t]: RecvAwaiter::result in the frame of t
  rets,           \* rets[t]: what the channel operations of t returned, in order
  closed_on,      \* closed_on[t]: the operation of t that was suspended when close ran
  top,            \* StealQueue::top
  bottom,         \* StealQueue::bottom
  array,          \* StealQueue::array: the index in arrays of the current Array
  arrays,         \* every Array allocated so far: [cap, buffer]
  pushed,         \* number of push calls started; the element of the k-th call is k
  o_pc,           \* where the owner thread is in push / pop
  o_b,            \* the owner's local b
  o_t,            \* the owner's local t
  o_val,          \* the owner's local val (0: nullptr)
  s_pc,           \* s_pc[w]: where thief w is in steal
  s_t,            \* s_t[w]: the thief's local t
  s_a,            \* s_a[w]: the thief's local a
  s_val,          \* s_val[w]: the thief's local val
  popped,         \* popped[e]: how many successful pops returned element e
  stolen,         \* stolen[e]: how many successful steals returned element e
  global_epoch_,  \* EbrManager::global_epoch_
  active,         \* active[w]: LocalState::active of thread w
  epoch,          \* epoch[w]: LocalState::epoch of thread w
  retire_bins,    \* retire_bins[w][i]: the retire epochs of the nodes in bin i - 1 of w
  op_count,       \* op_count[w]: LocalState::op_count
  ebr_mtx,        \* EbrManager::mtx_: the thread holding it, or 0
  e_pc,           \* e_pc[w]: where thread w is in enter / retire / try_advance
  e_g,            \* e_g[w]: the local g (enter), e (retire), global (try_advance)
  e_idx,          \* e_idx[w]: the thread the loop of try_advance is at
  entered_at,     \* entered_at[w]: global_epoch_ when active[w] last became true
  state,          \* state[w]: Parker::state of worker w's parker_
  p_pc,           \* p_pc[w]: where worker w is inside parker_.park(), "out" outside
  u_pc,           \* u_pc[c]: where caller c is inside unpark()
  u_w,            \* u_w[c]: the worker whose parker caller c unparks
  unparked,       \* unparked[w]: an unpark was issued since w's last park returned
  i_pc,           \* i_pc[w]: where worker w is in Worker::run_once
  i_task,         \* i_task[w]: the task worker w popped and resumes, or NoTask
  next,           \* the static counter of Scheduler::spawn
  sp_pc,          \* sp_pc[c]: where caller c is inside Scheduler::spawn
  resumed,        \* the tasks a worker popped and resumed
  handle,         \* handle[s]: Task::handle of the Task object in slot s, or NoTask (nullptr)
  ptr,            \* ptr[w]: the void* thread w holds: [task, by], or NoPtr (nullptr)
  h_op,           \* the last operation on a Task object: [op, w, s, by]
  result_,        \* result_[t]: AsyncReadAwaiter::result_ (client_fd_ for accept) in the frame of t
  eager,          \* eager[t]: what the syscall in await_ready of t returned: [r, e]
  io_ret,         \* io_ret[t]: what await_resume of t returned, NoRet before
  registered,     \* registered[t]: the register_read / register_write calls made for t
  errno,          \* errno[w]: errno of the thread of worker w
  platform,       \* "epoll" (Linux) or "kqueue" (macOS, FreeBSD): the Poller that was compiled
  now,            \* std::chrono::steady_clock::now(), in milliseconds
  expiry,         \* expiry[t]: Timer::expiry of the timer of task t
  a_pc,           \* a_pc[t]: where the add_timer call for task t is: "idle" | "wake" | "done"
  r_pc,           \* where Reactor::loop is: "timeout" | "wait" | "pass"
  r_deadline,     \* when poller_.wait times out, -1: never
  wake_pending,   \* a Poller::wake that poller_.wait has not returned for yet
  spawned,        \* spawned[t]: how many times the timer pass handed t to spawn
  stop_,          \* Scheduler::stop_
  running_,       \* Reactor::running_
  d_pc,           \* where the main thread is: "run" before ~Scheduler, then inside it
  d_i,            \* the worker the loop of ~Scheduler over workers_ is at
  sr_pc,          \* where the reactor thread is in Reactor::loop: "loop" | "wait" | "pass" | "exited"
  item,           \* the task owned by the by-value parameter of StealQueue::push, NoTask outside push
  elem_task,      \* elem_task[e]: the task whose handle the e-th push puts in the deque
  dropped,        \* dropped[e]: 1 once the Task that a pop or steal returned for e is destroyed
  issued,         \* issued[w]: the unparks of w's parker since its last park returned, up to MaxIssued
  at_call,        \* at_call[w]: issued[w] at the moment the last park of w was called
  ro_pc,          \* ro_pc[w]: where worker w is inside Worker::run_once
  ro_task,        \* ro_task[w]: the task that a pop or steal of this run_once returned, NoTask if none
  ro_i,           \* ro_i[w]: the loop variable i of the spin loop of run_once
  st_start,       \* st_start[w]: start of the Scheduler::steal that w has called
  st_i,           \* st_i[w]: the loop variable i of that Scheduler::steal
  trail,          \* trail[w]: the calls run_once has made so far in this iteration, with what they returned
  local_queue_,   \* local_queue_[w]: the tasks in the deque of worker w, oldest first
  placed,         \* the number of tasks handed to the scheduler so far
  interest,       \* the registrations the kernel holds for the poller: fd, kind, udata, armed, reg
  events_,        \* Poller::events_: the events the wait in progress has still to handle
  regs,           \* regs[n]: fd, kind and udata of the n-th call of add_read/add_write
  calls,          \* calls[n]: the values the callback was called with for the n-th registration
  op,             \* op[c]: the operation thread c is inside, "none" between operations
  op_i,           \* op_i[c]: the number of lock and unlock steps of op[c] that c has done
  owner           \* owner[m]: the thread that holds the std::mutex m, 0 if none

schedVars == <<ip, ph, done, frame, ref_count, is_running, destroyed,
               global_queue_, wpc, wtask, crashed>>
reactorVars == <<timers_, io_reg>>
mutexVars == <<locked_, waiters_, guards, counter, acquired, unlock_calls,
              enq_count, ticket, grant_count, last_grant>>
chanVars == <<capacity_, closed_, buffer_, send_waiters_, recv_waiters_,
             send_result, recv_result, rets, closed_on>>
stealVars == <<top, bottom, array, arrays, pushed, o_pc, o_b, o_t, o_val,
              s_pc, s_t, s_a, s_val, popped, stolen>>
ebrVars == <<global_epoch_, active, epoch, retire_bins, op_count, ebr_mtx,
            e_pc, e_g, e_idx, entered_at>>
parkVars == <<state, p_pc, u_pc, u_w, unparked>>
idleVars == <<i_pc, i_task, next, sp_pc, resumed>>
handleVars == <<handle, ptr, h_op>>
ioVars == <<result_, eager, io_ret, registered, errno>>
timerVars == <<platform, now, expiry, a_pc, r_pc, r_deadline, wake_pending, spawned>>
stopVars == <<stop_, running_, d_pc, d_i, sr_pc>>
localVars == <<item, elem_task, dropped>>
coalesceVars == <<issued, at_call>>
iterVars == <<ro_pc, ro_task, ro_i, st_start, st_i, trail, local_queue_, placed>>
pollVars == <<interest, events_, regs, calls>>
lockVars == <<op, op_i, owner>>
libVars == <<stealVars, ebrVars, parkVars, idleVars, handleVars, ioVars, timerVars, stopVars, localVars, coalesceVars, iterVars, pollVars, lockVars>>
vars == <<prog, schedVars, reactorVars, mutexVars, chanVars, libVars>>

\* ------------------------------------------------------------- task body
Op(t) == IF ip[t] \in 1..Len(prog[t]) THEN prog[t][ip[t]] ELSE "end"

Freed(t) == frame[t] = "freed"

\* The thread of worker w is inside handle.resume() of task t.
Running(w, t) == ~crashed /\ wpc[w] = "run" /\ wtask[w] = t

\* The body moves on to its next operation.
Advance(t) ==
  /\ ip' = [ip EXCEPT ![t] = @ + 1]
  /\ ph' = [ph EXCEPT ![t] = "ready"]

SetPh(t, p) ==
  /\ ph' = [ph EXCEPT ![t] = p]
  /\ UNCHANGED ip

\* handle.resume() returns to Task::resume (the coroutine suspended or finished).
ReturnToResume(w) == wpc' = [wpc EXCEPT ![w] = "after"]

\* ------------------------------------------------------------- scheduler
\* Scheduler::spawn: detach the handle (no count change), push the raw pointer
\* on the global queue (adopted there, no count change).
spawn(q, t) == Append(q, t)

\* main: t = coro(); sched.spawn(std::move(t)), for the coroutines main has
\* (a task without a body is never created).  The promise starts with
\* ref_count 1 and the coroutine at its initial suspend point.
Spawn(t) ==
  /\ ~crashed
  /\ prog[t] # <<>>
  /\ frame[t] = "none"
  /\ \A u \in Tasks : u < t /\ prog[u] # <<>> => frame[u] # "none"
  /\ frame' = [frame EXCEPT ![t] = "live"]
  /\ ref_count' = [ref_count EXCEPT ![t] = 1]
  /\ global_queue_' = spawn(global_queue_, t)
  /\ UNCHANGED <<prog, ip, ph, done, is_running, destroyed, wpc, wtask, crashed,
                 reactorVars, mutexVars, chanVars, libVars>>

\* Worker::run_once, the lookup: the local deque is empty (nothing in the
\* repository calls Worker::schedule), so the task comes from pop_global.
\* Idle workers are interchangeable: the one with the least index takes it.
pop_global(w) ==
  /\ ~crashed
  /\ wpc[w] = "idle"
  /\ \A v \in Workers : v < w => wpc[v] # "idle"
  /\ global_queue_ # <<>>
  /\ wtask' = [wtask EXCEPT ![w] = Head(global_queue_)]
  /\ global_queue_' = Tail(global_queue_)
  /\ wpc' = [wpc EXCEPT ![w] = "check"]
  /\ UNCHANGED <<prog, ip, ph, done, frame, ref_count, is_running, destroyed, crashed,
                 reactorVars, mutexVars, chanVars, libVars>>

\* Task::resume, first line: if (!handle || handle.done()) return;
resume_check(w) ==
  LET t == wtask[w] IN
  /\ ~crashed
  /\ wpc[w] = "check"
  /\ \E d \in (IF Freed(t) THEN BOOLEAN ELSE {done[t]}) :
       wpc' = [wpc EXCEPT ![w] = IF d THEN "drop" ELSE "cas"]
  /\ UNCHANGED <<prog, ip, ph, done, frame, ref_count, is_running, destroyed,
                 global_queue_, wtask, crashed, reactorVars, mutexVars, chanVars, libVars>>

\* The awaiter of a suspended task lives in its frame.  When the frame was
\* destroyed while the task waited, what the awaiter holds at the next
\* resumption is what was stored there or garbage.
StaleAwaiter(t) ==
  IF Freed(t) /\ Op(t) = "recv"
  THEN /\ \E v \in {recv_result[t], Garbage} :
            recv_result' = [recv_result EXCEPT ![t] = v]
       /\ UNCHANGED send_result
  ELSE IF Freed(t) /\ Op(t) = "send"
  THEN /\ \E b \in BOOLEAN : send_result' = [send_result EXCEPT ![t] = b]
       /\ UNCHANGED recv_result
  ELSE UNCHANGED <<send_result, recv_result>>

\* Task::resume, the compare_exchange on is_running and, when it wins,
\* the entry into handle.resume().
resume_cas(w) ==
  LET t == wtask[w] IN
  /\ ~crashed
  /\ wpc[w] = "cas"
  /\ \E won \in (IF Freed(t) THEN BOOLEAN ELSE {~is_running[t]}) :
       IF won
       THEN /\ is_running' = [is_running EXCEPT ![t] = TRUE]
            /\ IF done[t] \/ ph[t] # "wait"
               THEN \* handle.resume() on a coroutine that is finished or
                    \* not suspended: undefined
                    /\ wpc' = [wpc EXCEPT ![w] = "undefined"]
                    /\ UNCHANGED <<ip, ph, send_result, recv_result>>
               ELSE /\ wpc' = [wpc EXCEPT ![w] = "run"]
                    /\ IF ip[t] = 0 THEN Advance(t) ELSE SetPh(t, "res")
                    /\ StaleAwaiter(t)
       ELSE /\ wpc' = [wpc EXCEPT ![w] = "drop"]
            /\ UNCHANGED <<ip, ph, is_running, send_result, recv_result>>
  /\ UNCHANGED <<prog, done, frame, ref_count, destroyed, global_queue_, wtask, crashed,
                 reactorVars, mutexVars, capacity_, closed_, buffer_, send_waiters_,
                 recv_waiters_, rets, closed_on, libVars>>

\* handle.resume() on a coroutine at its final suspend point is undefined:
\* the call returns without effect (here), or the process dies (Crash).
resume_finished(w) ==
  /\ ~crashed
  /\ wpc[w] = "undefined"
  /\ wpc' = [wpc EXCEPT ![w] = "after"]
  /\ UNCHANGED <<prog, ip, ph, done, frame, ref_count, is_running, destroyed,
                 global_queue_, wtask, crashed, reactorVars, mutexVars, chanVars, libVars>>

\* Task::resume, after handle.resume() returned:
\* if (handle && !handle.done()) is_running.store(false).
resume_after(w) ==
  LET t == wtask[w] IN
  /\ ~crashed
  /\ wpc[w] = "after"
  /\ is_running' = IF ~Freed(t) /\ ~done[t]
                   THEN [is_running EXCEPT ![t] = FALSE] ELSE is_running
  /\ wpc' = [wpc EXCEPT ![w] = "drop"]
  /\ UNCHANGED <<prog, ip, ph, done, frame, ref_count, destroyed, global_queue_, wtask,
                 crashed, reactorVars, mutexVars, chanVars, libVars>>

\* Task::dec_ref on a live frame: fetch_sub, and destroy when the old value was 1.
dec_ref(t) ==
  /\ ref_count' = [ref_count EXCEPT ![t] = @ - 1]
  /\ IF ref_count[t] = 1
     THEN /\ frame' = [frame EXCEPT ![t] = "freed"]
          /\ destroyed' = [destroyed EXCEPT ![t] = @ + 1]
     ELSE UNCHANGED <<frame, destroyed>>

\* Worker::run_once returns: std::optional<Task> task goes out of scope, ~Task.
\* On a freed frame the fetch_sub reads whatever the memory holds now: the
\* old value may again be 1, and the frame is destroyed a second time.
drop_task(w) ==
  LET t == wtask[w] IN
  /\ ~crashed
  /\ wpc[w] = "drop"
  /\ IF Freed(t)
     THEN /\ \E again \in BOOLEAN :
               destroyed' = [destroyed EXCEPT ![t] = IF again THEN @ + 1 ELSE @]
          /\ UNCHANGED <<frame, ref_count>>
     ELSE dec_ref(t)
  /\ wpc' = [wpc EXCEPT ![w] = "idle"]
  /\ wtask' = [wtask EXCEPT ![w] = NoTask]
  /\ UNCHANGED <<prog, ip, ph, done, is_running, global_queue_, crashed, reactorVars, mutexVars, chanVars, libVars>>

\* An access to a freed frame, or handle.resume() on a coroutine that is not
\* suspended, may also kill the process; a dead process has
\* no state left (every variable goes back to its initial value, but for the
\* programs and for the capacity and the closed flag of the channel).
Crash(w) ==
  /\ ~crashed
  /\ \/ wpc[w] \in {"check", "cas", "run", "after", "drop"} /\ Freed(wtask[w])
     \/ wpc[w] = "undefined"
  /\ crashed' = TRUE
  /\ ip' = [t \in Tasks |-> 0]
  /\ ph' = [t \in Tasks |-> "wait"]
  /\ done' = [t \in Tasks |-> FALSE]
  /\ frame' = [t \in Tasks |-> "none"]
  /\ ref_count' = [t \in Tasks |-> 0]
  /\ is_running' = [t \in Tasks |-> FALSE]
  /\ destroyed' = [t \in Tasks |-> 0]
  /\ global_queue_' = <<>>
  /\ wpc' = [v \in Workers |-> "idle"]
  /\ wtask' = [v \in Workers |-> NoTask]
  /\ timers_' = {}
  /\ io_reg' = {}
  /\ locked_' = FALSE
  /\ waiters_' = <<>>
  /\ guards' = [t \in Tasks |-> <<>>]
  /\ counter' = 0
  /\ acquired' = 0
  /\ unlock_calls' = 0
  /\ enq_count' = 0
  /\ ticket' = [t \in Tasks |-> 0]
  /\ grant_count' = 0
  /\ last_grant' = 0
  /\ buffer_' = <<>>
  /\ send_waiters_' = <<>>
  /\ recv_waiters_' = <<>>
  /\ send_result' = [t \in Tasks |-> TRUE]
  /\ recv_result' = [t \in Tasks |-> None]
  /\ rets' = [t \in Tasks |-> <<>>]
  /\ closed_on' = [t \in Tasks |-> 0]
  /\ UNCHANGED <<prog, capacity_, closed_, libVars>>

\* co_return: final_suspend, FinalAwaiter::await_suspend stores is_running = false.
final_suspend(w, t) ==
  /\ Running(w, t)
  /\ Op(t) = "end"
  /\ ph[t] = "ready"
  /\ done' = [done EXCEPT ![t] = TRUE]
  /\ is_running' = [is_running EXCEPT ![t] = FALSE]
  /\ ReturnToResume(w)
  /\ UNCHANGED <<prog, ip, ph, frame, ref_count, destroyed, global_queue_, wtask, crashed,
                 reactorVars, mutexVars, chanVars, libVars>>

\* --------------------------------------------------------- sleep_for, I/O
\* AsyncSleep: await_ready is false; await_suspend hands the raw handle to
\* Reactor::add_timer, which pushes it on the timer heap.  No count change.
AsyncSleep_await_suspend(w, t) ==
  /\ Running(w, t)
  /\ Op(t) = "sleep"
  /\ ph[t] = "ready"
  /\ timers_' = timers_ \cup {t}
  /\ SetPh(t, "wait")
  /\ ReturnToResume(w)
  /\ UNCHANGED <<prog, done, frame, ref_count, is_running, destroyed, global_queue_,
                 wtask, crashed, io_reg, mutexVars, chanVars, libVars>>

AsyncSleep_await_resume(w, t) ==
  /\ Running(w, t)
  /\ Op(t) = "sleep"
  /\ ph[t] = "res"
  /\ Advance(t)
  /\ UNCHANGED <<prog, done, frame, ref_count, is_running, destroyed, global_queue_,
                 wpc, wtask, crashed, reactorVars, mutexVars, chanVars, libVars>>

\* Reactor::loop, the timer pass: an expired timer is popped and its handle
\* adopted and spawned.  Expiry is left to the clock: any timer may be due.
Reactor_timer(t) ==
  /\ ~crashed
  /\ t \in timers_
  /\ timers_' = timers_ \ {t}
  /\ global_queue_' = spawn(global_queue_, t)
  /\ UNCHANGED <<prog, ip, ph, done, frame, ref_count, is_running, destroyed, wpc, wtask,
                 crashed, io_reg, mutexVars, chanVars, libVars>>

\* The async awaiters of socket.h.  A read, write or accept call returns a
\* count (a descriptor) or -1 with errno set; errno is one per thread.
IoOps == {"read", "write", "accept"}
Syscall == {[r |-> 0, e |-> "0"], [r |-> -1, e |-> "EAGAIN"], [r |-> -1, e |-> "ECONNRESET"]}
NoRet == -2
IoKeep == UNCHANGED <<stealVars, ebrVars, parkVars, idleVars, handleVars, timerVars, stopVars, localVars, coalesceVars, iterVars, pollVars, lockVars>>

\* A failed call sets errno; a call that succeeds leaves it as it is.
SetErrno(w, o) ==
  errno' = IF o.r < 0 THEN [errno EXCEPT ![w] = o.e] ELSE errno

\* The same with every failure taken for EAGAIN.
Awaiter_await_ready_any_error(w, t, k) ==
  /\ Running(w, t)
  /\ Op(t) = k
  /\ ph[t] = "ready"
  /\ \E o \in Syscall :
       /\ result_' = [result_ EXCEPT ![t] = o.r]
       /\ eager' = [eager EXCEPT ![t] = o]
       /\ SetErrno(w, o)
       /\ SetPh(t, IF o.r >= 0 THEN "res" ELSE "susp")
  /\ UNCHANGED <<prog, done, frame, ref_count, is_running, destroyed, global_queue_,
                 wpc, wtask, crashed, reactorVars, mutexVars, chanVars, io_ret, registered>>
  /\ IoKeep

\* await_ready: result_ = ::read(...) (::write, ::accept);
\* if (result_ >= 0) return true; if (errno == EAGAIN || errno == EWOULDBLOCK)
\* return false; return true.
Awaiter_await_ready(w, t, k) ==
  /\ Running(w, t)
  /\ Op(t) = k
  /\ ph[t] = "ready"
  /\ \E o \in Syscall :
       /\ result_' = [result_ EXCEPT ![t] = o.r]
       /\ eager' = [eager EXCEPT ![t] = o]
       /\ SetErrno(w, o)
       /\ SetPh(t, IF o.r >= 0 THEN "res"
                   ELSE IF o.e = "EAGAIN" THEN "susp" ELSE "res")
  /\ UNCHANGED <<prog, done, frame, ref_count, is_running, destroyed, global_queue_,
                 wpc, wtask, crashed, reactorVars, mutexVars, chanVars, io_ret, registered>>
  /\ IoKeep

\* The same without the reference for the reactor.
Awaiter_await_suspend_no_ref(w, t, k) ==
  /\ Running(w, t)
  /\ Op(t) = k
  /\ ph[t] = "susp"
  /\ io_reg' = io_reg \cup {t}
  /\ registered' = [registered EXCEPT ![t] = Append(@, IF k = "write" THEN "write" ELSE "read")]
  /\ SetPh(t, "wait")
  /\ ReturnToResume(w)
  /\ UNCHANGED <<prog, done, frame, ref_count, is_running, destroyed, global_queue_, wtask,
                 crashed, timers_, mutexVars, chanVars, result_, eager, io_ret, errno>>
  /\ IoKeep

\* await_suspend: ref_count + 1 for the reactor, then register_read(fd,
\* h.address()) (register_write for a write).
Awaiter_await_suspend(w, t, k) ==
  /\ Running(w, t)
  /\ Op(t) = k
  /\ ph[t] = "susp"
  /\ ref_count' = [ref_count EXCEPT ![t] = @ + 1]
  /\ io_reg' = io_reg \cup {t}
  /\ registered' = [registered EXCEPT ![t] = Append(@, IF k = "write" THEN "write" ELSE "read")]
  /\ SetPh(t, "wait")
  /\ ReturnToResume(w)
  /\ UNCHANGED <<prog, done, frame, is_running, destroyed, global_queue_, wtask, crashed,
                 timers_, mutexVars, chanVars, result_, eager, io_ret, errno>>
  /\ IoKeep

\* await_resume: if (result_ < 0 && (errno == EAGAIN || errno == EWOULDBLOCK))
\* the call is made again; return result_.  errno is that of the thread
\* that runs the body now.
Awaiter_await_resume(w, t, k) ==
  /\ Running(w, t)
  /\ Op(t) = k
  /\ ph[t] = "res"
  /\ IF result_[t] < 0 /\ errno[w] = "EAGAIN"
     THEN \E o \in Syscall :
            /\ result_' = [result_ EXCEPT ![t] = o.r]
            /\ SetErrno(w, o)
            /\ io_ret' = [io_ret EXCEPT ![t] = o.r]
     ELSE /\ io_ret' = [io_ret EXCEPT ![t] = result_[t]]
          /\ UNCHANGED <<result_, errno>>
  /\ Advance(t)
  /\ UNCHANGED <<prog, done, frame, ref_count, is_running, destroyed, global_queue_,
                 wpc, wtask, crashed, reactorVars, mutexVars, chanVars, eager, registered>>
  /\ IoKeep

AsyncRead_await_ready(w, t) == Awaiter_await_ready(w, t, "read")
AsyncRead_await_suspend(w, t) == Awaiter_await_suspend(w, t, "read")
AsyncRead_await_resume(w, t) == Awaiter_await_resume(w, t, "read")
AsyncWrite_await_ready(w, t) == Awaiter_await_ready(w, t, "write")
AsyncWrite_await_suspend(w, t) == Awaiter_await_suspend(w, t, "write")
AsyncWrite_await_resume(w, t) == Awaiter_await_resume(w, t, "write")
AsyncAccept_await_ready(w, t) == Awaiter_await_ready(w, t, "accept")
AsyncAccept_await_suspend(w, t) == Awaiter_await_suspend(w, t, "accept")
AsyncAccept_await_resume(w, t) == Awaiter_await_resume(w, t, "accept")

\* Reactor::loop, io_handler: the one-shot registration fires, the handle is
\* adopted (no count change) and spawned.
Reactor_io_handler(t) ==
  /\ ~crashed
  /\ t \in io_reg
  /\ io_reg' = io_reg \ {t}
  /\ global_queue_' = spawn(global_queue_, t)
  /\ UNCHANGED <<prog, ip, ph, done, frame, ref_count, is_running, destroyed, wpc, wtask,
                 crashed, timers_, mutexVars, chanVars, libVars>>

\* What every step of a coroutine body leaves alone.
BodyFrame(t) ==
  /\ UNCHANGED <<prog, done, frame, is_running, destroyed, wtask, crashed>>

\* ------------------------------------------------------------- AsyncMutex
\* LockAwaiter::await_ready, under wait_mtx_: the fast path.
LockAwaiter_await_ready(w, t) ==
  /\ Running(w, t)
  /\ Op(t) = "lock"
  /\ ph[t] = "ready"
  /\ IF ~locked_
     THEN /\ locked_' = TRUE
          /\ SetPh(t, "res")
     ELSE /\ SetPh(t, "susp")
          /\ UNCHANGED locked_
  /\ BodyFrame(t)
  /\ UNCHANGED <<chanVars, libVars>>
  /\ UNCHANGED <<ref_count, global_queue_, wpc, reactorVars, waiters_, guards, counter,
                 acquired, unlock_calls, enq_count, ticket, grant_count, last_grant>>

\* await_suspend as it would be without the double check of locked_.
LockAwaiter_await_suspend_unchecked(w, t) ==
  /\ Running(w, t)
  /\ Op(t) = "lock"
  /\ ph[t] = "susp"
  /\ waiters_' = Append(waiters_, t)
  /\ enq_count' = enq_count + 1
  /\ ticket' = [ticket EXCEPT ![t] = enq_count + 1]
  /\ SetPh(t, "wait")
  /\ ReturnToResume(w)
  /\ UNCHANGED locked_
  /\ BodyFrame(t)
  /\ UNCHANGED <<chanVars, libVars>>
  /\ UNCHANGED <<ref_count, global_queue_, reactorVars, guards, counter, acquired,
                 unlock_calls, grant_count, last_grant>>

\* LockAwaiter::await_suspend, under wait_mtx_: the double check, then the
\* raw handle is pushed on waiters_ (no count change) and the task suspends.
LockAwaiter_await_suspend(w, t) ==
  /\ Running(w, t)
  /\ Op(t) = "lock"
  /\ ph[t] = "susp"
  /\ IF ~locked_
     THEN /\ locked_' = TRUE
          /\ SetPh(t, "res")
          /\ UNCHANGED <<waiters_, enq_count, ticket, wpc>>
     ELSE /\ waiters_' = Append(waiters_, t)
          /\ enq_count' = enq_count + 1
          /\ ticket' = [ticket EXCEPT ![t] = enq_count + 1]
          /\ SetPh(t, "wait")
          /\ ReturnToResume(w)
          /\ UNCHANGED locked_
  /\ BodyFrame(t)
  /\ UNCHANGED <<chanVars, libVars>>
  /\ UNCHANGED <<ref_count, global_queue_, reactorVars, guards, counter, acquired,
                 unlock_calls, grant_count, last_grant>>

\* LockAwaiter::await_resume: return ScopedLock{mutex}, which owns the lock.
LockAwaiter_await_resume(w, t) ==
  /\ Running(w, t)
  /\ Op(t) = "lock"
  /\ ph[t] = "res"
  /\ guards' = [guards EXCEPT ![t] = Append(@, TRUE)]
  /\ acquired' = acquired + 1
  /\ Advance(t)
  /\ BodyFrame(t)
  /\ UNCHANGED <<chanVars, libVars>>
  /\ UNCHANGED <<ref_count, global_queue_, wpc, reactorVars, locked_, waiters_, counter,
                 unlock_calls, enq_count, ticket, grant_count, last_grant>>

\* The critical section of the contention test: counter := counter + 1.
Increment(w, t) ==
  /\ Running(w, t)
  /\ Op(t) = "incr"
  /\ counter' = counter + 1
  /\ Advance(t)
  /\ BodyFrame(t)
  /\ UNCHANGED <<chanVars, libVars>>
  /\ UNCHANGED <<ref_count, global_queue_, wpc, reactorVars, locked_, waiters_, guards,
                 acquired, unlock_calls, enq_count, ticket, grant_count, last_grant>>

\* The move constructor as it would be if it left other.owns_lock_ set.
ScopedLock_move_copying(w, t) ==
  /\ Running(w, t)
  /\ Op(t) = "move"
  /\ guards[t] # <<>>
  /\ guards' = [guards EXCEPT ![t] = Append(@, @[Len(@)])]
  /\ Advance(t)
  /\ UNCHANGED <<prog, done, frame, is_running, destroyed, wtask, crashed>>
  /\ UNCHANGED <<ref_count, global_queue_, wpc, reactorVars, locked_, waiters_, counter,
                 acquired, unlock_calls, enq_count, ticket, grant_count, last_grant,
                 chanVars, libVars>>

\* ScopedLock(ScopedLock&& other): the new guard takes other's owns_lock_,
\* other.owns_lock_ = false.
ScopedLock_move(w, t) ==
  /\ Running(w, t)
  /\ Op(t) = "move"
  /\ guards[t] # <<>>
  /\ LET n == Len(guards[t]) IN
       guards' = [guards EXCEPT ![t] = Append([@ EXCEPT ![n] = FALSE], @[n])]
  /\ Advance(t)
  /\ BodyFrame(t)
  /\ UNCHANGED <<chanVars, libVars>>
  /\ UNCHANGED <<ref_count, global_queue_, wpc, reactorVars, locked_, waiters_, counter,
                 acquired, unlock_calls, enq_count, ticket, grant_count, last_grant>>

\* unlock as it would be without baton passing: the mutex is released and the
\* head waiter is woken to take it again.
unlock_releasing ==
  /\ unlock_calls' = unlock_calls + 1
  /\ locked_' = FALSE
  /\ IF waiters_ = <<>>
     THEN UNCHANGED <<waiters_, ticket, grant_count, last_grant, global_queue_>>
     ELSE /\ waiters_' = Tail(waiters_)
          /\ grant_count' = grant_count + 1
          /\ last_grant' = ticket[Head(waiters_)]
          /\ ticket' = [ticket EXCEPT ![Head(waiters_)] = 0]
          /\ global_queue_' = spawn(global_queue_, Head(waiters_))

\* unlock as it would be if it woke the waiter that queued last.
unlock_lifo ==
  /\ unlock_calls' = unlock_calls + 1
  /\ IF waiters_ = <<>>
     THEN /\ locked_' = FALSE
          /\ UNCHANGED <<waiters_, ticket, grant_count, last_grant, global_queue_>>
     ELSE LET n == Len(waiters_) IN
          /\ waiters_' = SubSeq(waiters_, 1, n - 1)
          /\ grant_count' = grant_count + 1
          /\ last_grant' = ticket[waiters_[n]]
          /\ ticket' = [ticket EXCEPT ![waiters_[n]] = 0]
          /\ global_queue_' = spawn(global_queue_, waiters_[n])
          /\ UNCHANGED locked_

\* AsyncMutex::unlock, under wait_mtx_: with no waiter the mutex is released;
\* otherwise locked_ stays true and the head waiter is popped, adopted and
\* spawned (baton passing).
unlock ==
  /\ unlock_calls' = unlock_calls + 1
  /\ IF waiters_ = <<>>
     THEN /\ locked_' = FALSE
          /\ UNCHANGED <<waiters_, ticket, grant_count, last_grant, global_queue_>>
     ELSE /\ waiters_' = Tail(waiters_)
          /\ grant_count' = grant_count + 1
          /\ last_grant' = ticket[Head(waiters_)]
          /\ ticket' = [ticket EXCEPT ![Head(waiters_)] = 0]
          /\ global_queue_' = spawn(global_queue_, Head(waiters_))
          /\ UNCHANGED locked_

\* ~ScopedLock of the youngest guard in scope: if (owns_lock_) mutex_.unlock().
ScopedLock_dtor(w, t) ==
  /\ Running(w, t)
  /\ Op(t) = "drop"
  /\ guards[t] # <<>>
  /\ LET n == Len(guards[t]) IN
       /\ guards' = [guards EXCEPT ![t] = SubSeq(@, 1, n - 1)]
       /\ IF guards[t][n]
          THEN unlock
          ELSE UNCHANGED <<unlock_calls, locked_, waiters_, ticket, grant_count, last_grant,
                           global_queue_>>
  /\ Advance(t)
  /\ BodyFrame(t)
  /\ UNCHANGED <<chanVars, libVars>>
  /\ UNCHANGED <<ref_count, wpc, reactorVars, counter, acquired, enq_count>>

\* ---------------------------------------------------------------- Channel
\* What a step of a coroutine body on the channel leaves alone.
ChanFrame(t) ==
  /\ BodyFrame(t)
  /\ UNCHANGED <<ref_count, reactorVars, mutexVars, capacity_, libVars>>

\* sched_.spawn(Task::from_address(w.handle.address())) for each waiter, front first.
RECURSIVE SpawnAll(_, _)
SpawnAll(q, hs) == IF hs = <<>> THEN q ELSE SpawnAll(spawn(q, Head(hs)), Tail(hs))

\* *sender.value_ptr: the value member of the SendAwaiter in the frame of the
\* suspended sender s; of a destroyed frame the read yields the value or garbage.
ValueAt(s) == IF Freed(s) THEN {Val(s, ip[s]), Garbage} ELSE {Val(s, ip[s])}

\* SendAwaiter::await_suspend as it would be with the capacity test off by one.
SendAwaiter_await_suspend_overfull(w, t) ==
  /\ Running(w, t)
  /\ Op(t) = "send"
  /\ ph[t] = "ready"
  /\ IF closed_
     THEN /\ send_result' = [send_result EXCEPT ![t] = FALSE]
          /\ SetPh(t, "res")
          /\ UNCHANGED <<buffer_, send_waiters_, recv_waiters_, recv_result,
                         global_queue_, wpc>>
     ELSE /\ send_result' = [send_result EXCEPT ![t] = TRUE]
          /\ IF recv_waiters_ # <<>>
             THEN /\ recv_result' = [recv_result EXCEPT ![Head(recv_waiters_)] = Val(t, ip[t])]
                  /\ global_queue_' = spawn(global_queue_, Head(recv_waiters_))
                  /\ recv_waiters_' = Tail(recv_waiters_)
                  /\ SetPh(t, "res")
                  /\ UNCHANGED <<buffer_, send_waiters_, wpc>>
             ELSE IF Len(buffer_) <= capacity_
             THEN /\ buffer_' = Append(buffer_, Val(t, ip[t]))
                  /\ SetPh(t, "res")
                  /\ UNCHANGED <<send_waiters_, recv_waiters_, recv_result,
                                 global_queue_, wpc>>
             ELSE /\ send_waiters_' = Append(send_waiters_, t)
                  /\ SetPh(t, "wait")
                  /\ ReturnToResume(w)
                  /\ UNCHANGED <<buffer_, recv_waiters_, recv_result, global_queue_>>
  /\ ChanFrame(t)
  /\ UNCHANGED <<closed_, rets, closed_on>>

\* SendAwaiter::await_suspend as it would be without the test of chan.closed_.
SendAwaiter_await_suspend_unchecked(w, t) ==
  /\ Running(w, t)
  /\ Op(t) = "send"
  /\ ph[t] = "ready"
  /\ send_result' = [send_result EXCEPT ![t] = TRUE]
  /\ IF recv_waiters_ # <<>>
     THEN /\ recv_result' = [recv_result EXCEPT ![Head(recv_waiters_)] = Val(t, ip[t])]
          /\ global_queue_' = spawn(global_queue_, Head(recv_waiters_))
          /\ recv_waiters_' = Tail(recv_waiters_)
          /\ SetPh(t, "res")
          /\ UNCHANGED <<buffer_, send_waiters_, wpc>>
     ELSE IF Len(buffer_) < capacity_
     THEN /\ buffer_' = Append(buffer_, Val(t, ip[t]))
          /\ SetPh(t, "res")
          /\ UNCHANGED <<send_waiters_, recv_waiters_, recv_result, global_queue_, wpc>>
     ELSE /\ send_waiters_' = Append(send_waiters_, t)
          /\ SetPh(t, "wait")
          /\ ReturnToResume(w)
          /\ UNCHANGED <<buffer_, recv_waiters_, recv_result, global_queue_>>
  /\ ChanFrame(t)
  /\ UNCHANGED <<closed_, rets, closed_on>>

\* SendAwaiter::await_ready (always false) and await_suspend, under chan.mtx_:
\* closed: result = false, no suspension; a receiver waits: write the value
\* through its result_ptr, spawn it and pop it; room in the buffer: push;
\* otherwise push {h, &value} on send_waiters_ and suspend.
SendAwaiter_await_suspend(w, t) ==
  /\ Running(w, t)
  /\ Op(t) = "send"
  /\ ph[t] = "ready"
  /\ IF closed_
     THEN /\ send_result' = [send_result EXCEPT ![t] = FALSE]
          /\ SetPh(t, "res")
          /\ UNCHANGED <<buffer_, send_waiters_, recv_waiters_, recv_result,
                         global_queue_, wpc>>
     ELSE /\ send_result' = [send_result EXCEPT ![t] = TRUE]
          /\ IF recv_waiters_ # <<>>
             THEN /\ recv_result' = [recv_result EXCEPT ![Head(recv_waiters_)] = Val(t, ip[t])]
                  /\ global_queue_' = spawn(global_queue_, Head(recv_waiters_))
                  /\ recv_waiters_' = Tail(recv_waiters_)
                  /\ SetPh(t, "res")
                  /\ UNCHANGED <<buffer_, send_waiters_, wpc>>
             ELSE IF Len(buffer_) < capacity_
             THEN /\ buffer_' = Append(buffer_, Val(t, ip[t]))
                  /\ SetPh(t, "res")
                  /\ UNCHANGED <<send_waiters_, recv_waiters_, recv_result,
                                 global_queue_, wpc>>
             ELSE /\ send_waiters_' = Append(send_waiters_, t)
                  /\ SetPh(t, "wait")
                  /\ ReturnToResume(w)
                  /\ UNCHANGED <<buffer_, recv_waiters_, recv_result, global_queue_>>
  /\ ChanFrame(t)
  /\ UNCHANGED <<closed_, rets, closed_on>>

\* SendAwaiter::await_resume: return result.
SendAwaiter_await_resume(w, t) ==
  /\ Running(w, t)
  /\ Op(t) = "send"
  /\ ph[t] = "res"
  /\ rets' = [rets EXCEPT ![t] = Append(@, IF send_result[t] THEN 1 ELSE 0)]
  /\ Advance(t)
  /\ ChanFrame(t)
  /\ UNCHANGED <<closed_, buffer_, send_waiters_, recv_waiters_, send_result,
                 recv_result, closed_on, global_queue_, wpc>>

\* RecvAwaiter::await_suspend as it would be with the closed test first.
RecvAwaiter_await_suspend_closed_first(w, t) ==
  /\ Running(w, t)
  /\ Op(t) = "recv"
  /\ ph[t] = "ready"
  /\ IF closed_
     THEN /\ recv_result' = [recv_result EXCEPT ![t] = None]
          /\ SetPh(t, "res")
          /\ UNCHANGED <<buffer_, send_waiters_, recv_waiters_, global_queue_, wpc>>
     ELSE IF buffer_ # <<>>
     THEN /\ recv_result' = [recv_result EXCEPT ![t] = Head(buffer_)]
          /\ IF send_waiters_ # <<>>
             THEN /\ \E v \in ValueAt(Head(send_waiters_)) :
                       buffer_' = Append(Tail(buffer_), v)
                  /\ global_queue_' = spawn(global_queue_, Head(send_waiters_))
                  /\ send_waiters_' = Tail(send_waiters_)
             ELSE /\ buffer_' = Tail(buffer_)
                  /\ UNCHANGED <<send_waiters_, global_queue_>>
          /\ SetPh(t, "res")
          /\ UNCHANGED <<recv_waiters_, wpc>>
     ELSE IF send_waiters_ # <<>>
     THEN /\ \E v \in ValueAt(Head(send_waiters_)) :
               recv_result' = [recv_result EXCEPT ![t] = v]
          /\ global_queue_' = spawn(global_queue_, Head(send_waiters_))
          /\ send_waiters_' = Tail(send_waiters_)
          /\ SetPh(t, "res")
          /\ UNCHANGED <<buffer_, recv_waiters_, wpc>>
     ELSE IF closed_
     THEN /\ recv_result' = [recv_result EXCEPT ![t] = None]
          /\ SetPh(t, "res")
          /\ UNCHANGED <<buffer_, send_waiters_, recv_waiters_, global_queue_, wpc>>
     ELSE /\ recv_result' = [recv_result EXCEPT ![t] = None]
          /\ recv_waiters_' = Append(recv_waiters_, t)
          /\ SetPh(t, "wait")
          /\ ReturnToResume(w)
          /\ UNCHANGED <<buffer_, send_waiters_, global_queue_>>
  /\ ChanFrame(t)
  /\ UNCHANGED <<closed_, send_result, rets, closed_on>>

\* RecvAwaiter::await_ready (always false) and await_suspend, under chan.mtx_:
\* take the front of the buffer and refill it from the first suspended
\* sender; else take the value of the first suspended sender; else, closed,
\* result = nullopt; else push {h, &result} on recv_waiters_ and suspend.
RecvAwaiter_await_suspend(w, t) ==
  /\ Running(w, t)
  /\ Op(t) = "recv"
  /\ ph[t] = "ready"
  /\ IF buffer_ # <<>>
     THEN /\ recv_result' = [recv_result EXCEPT ![t] = Head(buffer_)]
          /\ IF send_waiters_ # <<>>
             THEN /\ \E v \in ValueAt(Head(send_waiters_)) :
                       buffer_' = Append(Tail(buffer_), v)
                  /\ global_queue_' = spawn(global_queue_, Head(send_waiters_))
                  /\ send_waiters_' = Tail(send_waiters_)
             ELSE /\ buffer_' = Tail(buffer_)
                  /\ UNCHANGED <<send_waiters_, global_queue_>>
          /\ SetPh(t, "res")
          /\ UNCHANGED <<recv_waiters_, wpc>>
     ELSE IF send_waiters_ # <<>>
     THEN /\ \E v \in ValueAt(Head(send_waiters_)) :
               recv_result' = [recv_result EXCEPT ![t] = v]
          /\ global_queue_' = spawn(global_queue_, Head(send_waiters_))
          /\ send_waiters_' = Tail(send_waiters_)
          /\ SetPh(t, "res")
          /\ UNCHANGED <<buffer_, recv_waiters_, wpc>>
     ELSE IF closed_
     THEN /\ recv_result' = [recv_result EXCEPT ![t] = None]
          /\ SetPh(t, "res")
          /\ UNCHANGED <<buffer_, send_waiters_, recv_waiters_, global_queue_, wpc>>
     ELSE /\ recv_result' = [recv_result EXCEPT ![t] = None]
          /\ recv_waiters_' = Append(recv_waiters_, t)
          /\ SetPh(t, "wait")
          /\ ReturnToResume(w)
          /\ UNCHANGED <<buffer_, send_waiters_, global_queue_>>
  /\ ChanFrame(t)
  /\ UNCHANGED <<closed_, send_result, rets, closed_on>>

\* RecvAwaiter::await_resume: return std::move(result).
RecvAwaiter_await_resume(w, t) ==
  /\ Running(w, t)
  /\ Op(t) = "recv"
  /\ ph[t] = "res"
  /\ rets' = [rets EXCEPT ![t] = Append(@, recv_result[t])]
  /\ Advance(t)
  /\ ChanFrame(t)
  /\ UNCHANGED <<closed_, buffer_, send_waiters_, recv_waiters_, send_result,
                 recv_result, closed_on, global_queue_, wpc>>

\* Channel::close, under mtx_: nothing when already closed; else closed_ = true,
\* every suspended sender is spawned, and every suspended receiver has nullopt
\* written through its result_ptr and is spawned.
Channel_close(w, t) ==
  /\ Running(w, t)
  /\ Op(t) = "close"
  /\ IF closed_
     THEN UNCHANGED <<closed_, send_waiters_, recv_waiters_, recv_result, closed_on,
                      global_queue_>>
     ELSE /\ closed_' = TRUE
          /\ global_queue_' = SpawnAll(SpawnAll(global_queue_, send_waiters_), recv_waiters_)
          /\ recv_result' = [r \in Tasks |->
                               IF \E i \in 1..Len(recv_waiters_) : recv_waiters_[i] = r
                               THEN None ELSE recv_result[r]]
          /\ closed_on' = [r \in Tasks |->
                             IF \E i \in 1..Len(send_waiters_ \o recv_waiters_) :
                                  (send_waiters_ \o recv_waiters_)[i] = r
                             THEN ip[r] ELSE closed_on[r]]
          /\ send_waiters_' = <<>>
          /\ recv_waiters_' = <<>>
  /\ Advance(t)
  /\ ChanFrame(t)
  /\ UNCHANGED <<buffer_, send_result, rets, wpc>>

\* ------------------------------------------------------------- StealQueue
\* One owner thread calls push and pop, the threads in Workers call steal.
\* Every step holds one access to top, bottom, array or a slot.
MaxPush == 3
LogCap == 1
Elements == 1..MaxPush

RECURSIVE Pow2(_)
Pow2(n) == IF n = 0 THEN 1 ELSE 2 * Pow2(n - 1)

\* Array(c): cap = c, every slot nullptr.  put and get address slot i & mask,
\* which is i mod cap as cap is a power of two.
NewArray(c) == [cap |-> c, buffer |-> [i \in 0..(c - 1) |-> 0]]
put(a, i, p) == [a EXCEPT !.buffer[i % a.cap] = p]
get(a, i) == a.buffer[i % a.cap]

\* Array::resize(b, t): an Array of twice the capacity holding slots t..b-1.
RECURSIVE CopySlots(_, _, _, _)
CopySlots(new, old, i, b) ==
  IF i >= b THEN new ELSE CopySlots(put(new, i, get(old, i)), old, i + 1, b)
\* resize as it would be if the copy started one slot after t.
resize_skipping_top(a, b, t) == CopySlots(NewArray(2 * a.cap), a, t + 1, b)
resize(a, b, t) == CopySlots(NewArray(2 * a.cap), a, t, b)

StealFrame == UNCHANGED <<prog, schedVars, reactorVars, mutexVars, chanVars, ebrVars, parkVars, idleVars, handleVars, ioVars, timerVars, stopVars, localVars, coalesceVars, iterVars, pollVars, lockVars>>
OwnerFrame == UNCHANGED <<s_pc, s_t, s_a, s_val, stolen>>
ThiefFrame == UNCHANGED <<bottom, array, arrays, pushed, o_pc, o_b, o_t, o_val, popped>>

\* push: b = bottom.load(); t = top.load(acquire); a = array.load().
push_load ==
  /\ o_pc = "idle"
  /\ pushed < MaxPush
  /\ pushed' = pushed + 1
  /\ o_b' = bottom
  /\ o_t' = top
  /\ o_pc' = "push_resize"
  /\ UNCHANGED <<top, bottom, array, arrays, o_val, popped>>
  /\ OwnerFrame /\ StealFrame

\* push: if (b - t >= cap - 1) { new_a = a->resize(b, t); array.store(new_a); }
push_resize ==
  /\ o_pc = "push_resize"
  /\ IF o_b - o_t >= arrays[array].cap - 1
     THEN /\ arrays' = Append(arrays, resize(arrays[array], o_b, o_t))
          /\ array' = Len(arrays) + 1
     ELSE UNCHANGED <<arrays, array>>
  /\ o_pc' = "push_put"
  /\ UNCHANGED <<top, bottom, pushed, o_b, o_t, o_val, popped>>
  /\ OwnerFrame /\ StealFrame

\* push: a->put(b, item.to_address()).
push_put ==
  /\ o_pc = "push_put"
  /\ arrays' = [arrays EXCEPT ![array] = put(@, o_b, pushed)]
  /\ o_pc' = "push_bottom"
  /\ UNCHANGED <<top, bottom, array, pushed, o_b, o_t, o_val, popped>>
  /\ OwnerFrame /\ StealFrame

\* push: fence(release); bottom.store(b + 1).
push_bottom ==
  /\ o_pc = "push_bottom"
  /\ bottom' = o_b + 1
  /\ o_pc' = "idle"
  /\ o_b' = 0
  /\ o_t' = 0
  /\ UNCHANGED <<top, array, arrays, pushed, o_val, popped>>
  /\ OwnerFrame /\ StealFrame

\* pop: b = bottom.load() - 1; bottom.store(b); fence(seq_cst).
pop_dec ==
  /\ o_pc = "idle"
  /\ o_b' = bottom - 1
  /\ bottom' = bottom - 1
  /\ o_pc' = "pop_top"
  /\ UNCHANGED <<top, array, arrays, pushed, o_t, o_val, popped>>
  /\ OwnerFrame /\ StealFrame

\* pop: t = top.load(seq_cst); if (t <= b) ... else the deque was empty.
pop_top ==
  /\ o_pc = "pop_top"
  /\ o_t' = top
  /\ o_pc' = IF top <= o_b THEN "pop_get" ELSE "pop_restore"
  /\ UNCHANGED <<top, bottom, array, arrays, pushed, o_b, o_val, popped>>
  /\ OwnerFrame /\ StealFrame

\* pop as it would be reading the slot at top, the end the thieves take from.
pop_get_top ==
  /\ o_pc = "pop_get"
  /\ LET val == get(arrays[array], o_t) IN
       IF o_t = o_b
       THEN /\ o_val' = val
            /\ o_pc' = "pop_cas"
            /\ UNCHANGED <<popped, o_b, o_t>>
       ELSE /\ popped' = [popped EXCEPT ![val] = @ + 1]
            /\ o_pc' = "idle"
            /\ o_b' = 0
            /\ o_t' = 0
            /\ UNCHANGED o_val
  /\ UNCHANGED <<top, bottom, array, arrays, pushed>>
  /\ OwnerFrame /\ StealFrame

\* pop: val = a->get(b); with t < b the element is taken and returned.
pop_get ==
  /\ o_pc = "pop_get"
  /\ LET val == get(arrays[array], o_b) IN
       IF o_t = o_b
       THEN /\ o_val' = val
            /\ o_pc' = "pop_cas"
            /\ UNCHANGED <<popped, o_b, o_t>>
       ELSE /\ popped' = [popped EXCEPT ![val] = @ + 1]
            /\ o_pc' = "idle"
            /\ o_b' = 0
            /\ o_t' = 0
            /\ UNCHANGED o_val
  /\ UNCHANGED <<top, bottom, array, arrays, pushed>>
  /\ OwnerFrame /\ StealFrame

\* pop taking the last element as it would be with a plain store to top in
\* place of the compare_exchange.
pop_cas_blind ==
  /\ o_pc = "pop_cas"
  /\ top' = o_t + 1
  /\ o_pc' = "pop_restore"
  /\ UNCHANGED <<bottom, array, arrays, pushed, o_b, o_t, o_val, popped>>
  /\ OwnerFrame /\ StealFrame

\* pop, t == b: top.compare_exchange_strong(t, t + 1); when it fails a thief
\* has taken the last element and pop returns nullopt.
pop_cas ==
  /\ o_pc = "pop_cas"
  /\ IF top = o_t
     THEN top' = o_t + 1 /\ UNCHANGED o_val
     ELSE o_val' = 0 /\ UNCHANGED top
  /\ o_pc' = "pop_restore"
  /\ UNCHANGED <<bottom, array, arrays, pushed, o_b, o_t, popped>>
  /\ OwnerFrame /\ StealFrame

\* pop as it would be if only the pop that won the compare_exchange stored
\* b + 1 to bottom.
pop_restore_won_only ==
  /\ o_pc = "pop_restore"
  /\ bottom' = IF o_val # 0 THEN o_b + 1 ELSE bottom
  /\ popped' = IF o_val # 0 THEN [popped EXCEPT ![o_val] = @ + 1] ELSE popped
  /\ o_pc' = "idle"
  /\ o_b' = 0
  /\ o_t' = 0
  /\ o_val' = 0
  /\ UNCHANGED <<top, array, arrays, pushed>>
  /\ OwnerFrame /\ StealFrame

\* pop: bottom.store(b + 1), then return T::from_address(val) after a won
\* compare_exchange, nullopt otherwise.
pop_restore ==
  /\ o_pc = "pop_restore"
  /\ bottom' = o_b + 1
  /\ popped' = IF o_val # 0 THEN [popped EXCEPT ![o_val] = @ + 1] ELSE popped
  /\ o_pc' = "idle"
  /\ o_b' = 0
  /\ o_t' = 0
  /\ o_val' = 0
  /\ UNCHANGED <<top, array, arrays, pushed>>
  /\ OwnerFrame /\ StealFrame

\* steal: t = top.load(acquire); fence(seq_cst).
steal_top(w) ==
  /\ s_pc[w] = "idle"
  /\ s_t' = [s_t EXCEPT ![w] = top]
  /\ s_pc' = [s_pc EXCEPT ![w] = "steal_bottom"]
  /\ UNCHANGED <<top, s_a, s_val, stolen>>
  /\ ThiefFrame /\ StealFrame

\* steal: b = bottom.load(acquire); if (t < b) ... else return nullopt.
steal_bottom(w) ==
  /\ s_pc[w] = "steal_bottom"
  /\ IF s_t[w] < bottom
     THEN /\ s_pc' = [s_pc EXCEPT ![w] = "steal_array"]
          /\ UNCHANGED s_t
     ELSE /\ s_pc' = [s_pc EXCEPT ![w] = "idle"]
          /\ s_t' = [s_t EXCEPT ![w] = 0]
  /\ UNCHANGED <<top, s_a, s_val, stolen>>
  /\ ThiefFrame /\ StealFrame

\* steal: a = array.load(consume).
steal_array(w) ==
  /\ s_pc[w] = "steal_array"
  /\ s_a' = [s_a EXCEPT ![w] = array]
  /\ s_pc' = [s_pc EXCEPT ![w] = "steal_get"]
  /\ UNCHANGED <<top, s_t, s_val, stolen>>
  /\ ThiefFrame /\ StealFrame

\* steal: val = a->get(t).
steal_get(w) ==
  /\ s_pc[w] = "steal_get"
  /\ s_val' = [s_val EXCEPT ![w] = get(arrays[s_a[w]], s_t[w])]
  /\ s_pc' = [s_pc EXCEPT ![w] = "steal_cas"]
  /\ UNCHANGED <<top, s_t, s_a, stolen>>
  /\ ThiefFrame /\ StealFrame

\* steal as it would be with a plain store to top in place of the
\* compare_exchange.
steal_cas_blind(w) ==
  /\ s_pc[w] = "steal_cas"
  /\ top' = s_t[w] + 1
  /\ stolen' = [stolen EXCEPT ![s_val[w]] = @ + 1]
  /\ s_pc' = [s_pc EXCEPT ![w] = "idle"]
  /\ s_t' = [s_t EXCEPT ![w] = 0]
  /\ s_a' = [s_a EXCEPT ![w] = 0]
  /\ s_val' = [s_val EXCEPT ![w] = 0]
  /\ ThiefFrame /\ StealFrame

\* steal: top.compare_exchange_strong(t, t + 1): return T::from_address(val)
\* when it wins, nullopt when it fails.
steal_cas(w) ==
  /\ s_pc[w] = "steal_cas"
  /\ IF top = s_t[w]
     THEN /\ top' = s_t[w] + 1
          /\ stolen' = [stolen EXCEPT ![s_val[w]] = @ + 1]
     ELSE UNCHANGED <<top, stolen>>
  /\ s_pc' = [s_pc EXCEPT ![w] = "idle"]
  /\ s_t' = [s_t EXCEPT ![w] = 0]
  /\ s_a' = [s_a EXCEPT ![w] = 0]
  /\ s_val' = [s_val EXCEPT ![w] = 0]
  /\ ThiefFrame /\ StealFrame

\* StealQueue(ls): top = bottom = 0, one Array (of 1024 slots in the source,
\* of 2^LogCap here).
StealInit ==
  /\ top = 0
  /\ bottom = 0
  /\ array = 1
  /\ arrays = <<NewArray(Pow2(LogCap))>>
  /\ pushed = 0
  /\ o_pc = "idle"
  /\ o_b = 0
  /\ o_t = 0
  /\ o_val = 0
  /\ s_pc = [w \in Workers |-> "idle"]
  /\ s_t = [w \in Workers |-> 0]
  /\ s_a = [w \in Workers |-> 0]
  /\ s_val = [w \in Workers |-> 0]
  /\ popped = [e \in 0..MaxPush |-> 0]
  /\ stolen = [e \in 0..MaxPush |-> 0]

\* ------------------------------------------------------------ EbrManager
\* The registered threads are those of Workers.  try_advance runs every
\* (GcEvery + 1)-th retire of a thread (every 65th in the source); the epoch
\* counter is followed up to MaxEpoch.
GcEvery == 1
MaxEpoch == 3
NumBins == 3

EbrFrame == UNCHANGED <<prog, schedVars, reactorVars, mutexVars, chanVars, stealVars, parkVars, idleVars, handleVars, ioVars, timerVars, stopVars, localVars, coalesceVars, iterVars, pollVars, lockVars>>
SetPc(w, pc) == e_pc' = [e_pc EXCEPT ![w] = pc]

\* enter: g = global_epoch_.load().
enter_load(w) ==
  /\ e_pc[w] = "idle"
  /\ ~active[w]
  /\ e_g' = [e_g EXCEPT ![w] = global_epoch_]
  /\ SetPc(w, "enter_epoch")
  /\ UNCHANGED <<global_epoch_, active, epoch, retire_bins, op_count, ebr_mtx, e_idx,
                 entered_at>>
  /\ EbrFrame

\* enter: local->epoch.store(g).
enter_epoch(w) ==
  /\ e_pc[w] = "enter_epoch"
  /\ epoch' = [epoch EXCEPT ![w] = e_g[w]]
  /\ SetPc(w, "enter_active")
  /\ UNCHANGED <<global_epoch_, active, retire_bins, op_count, ebr_mtx, e_g, e_idx,
                 entered_at>>
  /\ EbrFrame

\* enter: local->active.store(true, seq_cst).
enter_active(w) ==
  /\ e_pc[w] = "enter_active"
  /\ active' = [active EXCEPT ![w] = TRUE]
  /\ entered_at' = [entered_at EXCEPT ![w] = global_epoch_]
  /\ e_g' = [e_g EXCEPT ![w] = 0]
  /\ SetPc(w, "idle")
  /\ UNCHANGED <<global_epoch_, epoch, retire_bins, op_count, ebr_mtx, e_idx>>
  /\ EbrFrame

\* exit: local->active.store(false).
exit(w) ==
  /\ e_pc[w] = "idle"
  /\ active[w]
  /\ active' = [active EXCEPT ![w] = FALSE]
  /\ UNCHANGED <<global_epoch_, epoch, retire_bins, op_count, ebr_mtx, e_pc, e_g, e_idx,
                 entered_at>>
  /\ EbrFrame

\* retire: e = global_epoch_.load().
retire_load(w) ==
  /\ e_pc[w] = "idle"
  /\ e_g' = [e_g EXCEPT ![w] = global_epoch_]
  /\ SetPc(w, "retire_push")
  /\ UNCHANGED <<global_epoch_, active, epoch, retire_bins, op_count, ebr_mtx, e_idx,
                 entered_at>>
  /\ EbrFrame

\* retire: retire_bins[e % 3].push_back(node); op_count++; every
\* (GcEvery + 1)-th call goes on to try_advance.
retire_push(w) ==
  /\ e_pc[w] = "retire_push"
  /\ retire_bins' = [retire_bins EXCEPT ![w][(e_g[w] % NumBins) + 1] = @ \cup {e_g[w]}]
  /\ IF op_count[w] + 1 > GcEvery
     THEN /\ op_count' = [op_count EXCEPT ![w] = 0]
          /\ SetPc(w, "advance_load")
     ELSE /\ op_count' = [op_count EXCEPT ![w] = @ + 1]
          /\ SetPc(w, "idle")
  /\ e_g' = [e_g EXCEPT ![w] = 0]
  /\ UNCHANGED <<global_epoch_, active, epoch, ebr_mtx, e_idx, entered_at>>
  /\ EbrFrame

\* try_advance: global = global_epoch_.load(), before the mutex is taken.
advance_load(w) ==
  /\ e_pc[w] = "advance_load"
  /\ e_g' = [e_g EXCEPT ![w] = global_epoch_]
  /\ SetPc(w, "advance_lock")
  /\ UNCHANGED <<global_epoch_, active, epoch, retire_bins, op_count, ebr_mtx, e_idx,
                 entered_at>>
  /\ EbrFrame

\* try_advance: std::lock_guard lock(mtx_); the loop starts at the first thread.
advance_lock(w) ==
  /\ e_pc[w] = "advance_lock"
  /\ ebr_mtx = 0
  /\ ebr_mtx' = w
  /\ e_idx' = [e_idx EXCEPT ![w] = 1]
  /\ SetPc(w, "advance_active")
  /\ UNCHANGED <<global_epoch_, active, epoch, retire_bins, op_count, e_g, entered_at>>
  /\ EbrFrame

\* After thread e_idx[w] passed the test: the next thread, or the end of the loop.
NextThread(w) ==
  IF e_idx[w] = NumWorkers
  THEN e_idx' = [e_idx EXCEPT ![w] = 0] /\ SetPc(w, "advance_store")
  ELSE e_idx' = [e_idx EXCEPT ![w] = @ + 1] /\ SetPc(w, "advance_active")

\* try_advance, loop: t->active.load().
advance_active(w) ==
  /\ e_pc[w] = "advance_active"
  /\ IF active[e_idx[w]]
     THEN SetPc(w, "advance_epoch") /\ UNCHANGED e_idx
     ELSE NextThread(w)
  /\ UNCHANGED <<global_epoch_, active, epoch, retire_bins, op_count, ebr_mtx, e_g,
                 entered_at>>
  /\ EbrFrame

\* try_advance, loop: t->epoch.load() != global returns (and unlocks).
advance_epoch(w) ==
  /\ e_pc[w] = "advance_epoch"
  /\ IF epoch[e_idx[w]] # e_g[w]
     THEN /\ ebr_mtx' = 0
          /\ e_idx' = [e_idx EXCEPT ![w] = 0]
          /\ e_g' = [e_g EXCEPT ![w] = 0]
          /\ SetPc(w, "idle")
     ELSE /\ NextThread(w)
          /\ UNCHANGED <<ebr_mtx, e_g>>
  /\ UNCHANGED <<global_epoch_, active, epoch, retire_bins, op_count, entered_at>>
  /\ EbrFrame

\* try_advance: next = global + 1; global_epoch_.store(next).  e_g[w] holds
\* next from here on.
advance_store(w) ==
  /\ e_pc[w] = "advance_store"
  /\ e_g[w] < MaxEpoch
  /\ global_epoch_' = e_g[w] + 1
  /\ e_g' = [e_g EXCEPT ![w] = @ + 1]
  /\ SetPc(w, "advance_clean")
  /\ UNCHANGED <<active, epoch, retire_bins, op_count, ebr_mtx, e_idx, entered_at>>
  /\ EbrFrame

safe_bin_idx(n) == (n + 1) % NumBins

\* try_advance: the deleters of bin safe_bin_idx of every thread run, the
\* bins are cleared, the lock is released.
advance_clean(w) ==
  /\ e_pc[w] = "advance_clean"
  /\ retire_bins' = [u \in Workers |->
                       [retire_bins[u] EXCEPT ![safe_bin_idx(e_g[w]) + 1] = {}]]
  /\ ebr_mtx' = 0
  /\ e_g' = [e_g EXCEPT ![w] = 0]
  /\ SetPc(w, "idle")
  /\ UNCHANGED <<global_epoch_, active, epoch, op_count, e_idx, entered_at>>
  /\ EbrFrame

EbrInit ==
  /\ global_epoch_ = 0
  /\ active = [w \in Workers |-> FALSE]
  /\ epoch = [w \in Workers |-> 0]
  /\ retire_bins = [w \in Workers |-> [i \in 1..NumBins |-> {}]]
  /\ op_count = [w \in Workers |-> 0]
  /\ ebr_mtx = 0
  /\ e_pc = [w \in Workers |-> "idle"]
  /\ e_g = [w \in Workers |-> 0]
  /\ e_idx = [w \in Workers |-> 0]
  /\ entered_at = [w \in Workers |-> 0]

\* ---------------------------------------------------------------- Parker
\* The threads of the program: the workers, the reactor thread and the main
\* thread.  Each of them can call unpark (through Worker::wake).
ReactorThread == NumWorkers + 1
MainThread == NumWorkers + 2
Threads == Workers \cup {ReactorThread, MainThread}

EMPTY == 0
PARKED == 1
NOTIFIED == 2

\* park as it would be with an exchange in place of the compare-exchange.
park_cas_exchange(w) ==
  /\ p_pc[w] = "park_cas"
  /\ state' = [state EXCEPT ![w] = PARKED] /\ p_pc' = [p_pc EXCEPT ![w] = "park_load"]
  /\ UNCHANGED <<u_pc, u_w, unparked>>

\* park: state.compare_exchange_strong(expected = EMPTY, PARKED).
park_cas(w) ==
  /\ p_pc[w] = "park_cas"
  /\ IF state[w] = EMPTY
     THEN state' = [state EXCEPT ![w] = PARKED] /\ p_pc' = [p_pc EXCEPT ![w] = "park_load"]
     ELSE UNCHANGED state /\ p_pc' = [p_pc EXCEPT ![w] = "park_store"]
  /\ UNCHANGED <<u_pc, u_w, unparked>>

\* park: while (state.load() == PARKED).
park_load(w) ==
  /\ p_pc[w] = "park_load"
  /\ p_pc' = [p_pc EXCEPT ![w] = IF state[w] = PARKED THEN "park_wait" ELSE "park_store"]
  /\ UNCHANGED <<state, u_pc, u_w, unparked>>

\* park: state.wait(PARKED) compares the value with PARKED and blocks only
\* if they are equal.
park_wait(w) ==
  /\ p_pc[w] = "park_wait"
  /\ p_pc' = [p_pc EXCEPT ![w] = IF state[w] = PARKED THEN "park_blocked" ELSE "park_load"]
  /\ UNCHANGED <<state, u_pc, u_w, unparked>>

\* park: std::atomic::wait may return spuriously.
park_spurious(w) ==
  /\ p_pc[w] = "park_blocked"
  /\ p_pc' = [p_pc EXCEPT ![w] = "park_load"]
  /\ UNCHANGED <<state, u_pc, u_w, unparked>>

\* park: state.store(EMPTY) and return.
park_store(w) ==
  /\ p_pc[w] = "park_store"
  /\ state' = [state EXCEPT ![w] = EMPTY]
  /\ p_pc' = [p_pc EXCEPT ![w] = "out"]
  /\ unparked' = [unparked EXCEPT ![w] = FALSE]
  /\ UNCHANGED <<u_pc, u_w>>

\* unpark without the notification.
unpark_exchange_silent(c) ==
  /\ u_pc[c] = "exchange"
  /\ state' = [state EXCEPT ![u_w[c]] = NOTIFIED]
  /\ unparked' = [unparked EXCEPT ![u_w[c]] = TRUE]
  /\ u_pc' = [u_pc EXCEPT ![c] = "idle"]
  /\ u_w' = [u_w EXCEPT ![c] = 0]
  /\ UNCHANGED p_pc

\* unpark: old = state.exchange(NOTIFIED); if (old == PARKED) ...
unpark_exchange(c) ==
  /\ u_pc[c] = "exchange"
  /\ state' = [state EXCEPT ![u_w[c]] = NOTIFIED]
  /\ unparked' = [unparked EXCEPT ![u_w[c]] = TRUE]
  /\ IF state[u_w[c]] = PARKED
     THEN u_pc' = [u_pc EXCEPT ![c] = "notify"] /\ UNCHANGED u_w
     ELSE u_pc' = [u_pc EXCEPT ![c] = "idle"] /\ u_w' = [u_w EXCEPT ![c] = 0]
  /\ UNCHANGED p_pc

\* unpark: state.notify_one() unblocks the thread waiting on state, if any.
unpark_notify(c) ==
  /\ u_pc[c] = "notify"
  /\ p_pc' = [p_pc EXCEPT ![u_w[c]] = IF @ = "park_blocked" THEN "park_load" ELSE @]
  /\ u_pc' = [u_pc EXCEPT ![c] = "idle"]
  /\ u_w' = [u_w EXCEPT ![c] = 0]
  /\ UNCHANGED <<state, unparked>>

ParkInit ==
  /\ state = [w \in Workers |-> EMPTY]
  /\ p_pc = [w \in Workers |-> "out"]
  /\ u_pc = [c \in Threads |-> "idle"]
  /\ u_w = [c \in Threads |-> 0]
  /\ unparked = [w \in Workers |-> FALSE]

IdleInit ==
  /\ i_pc = [w \in Workers |-> "find"]
  /\ i_task = [w \in Workers |-> NoTask]
  /\ next = 0
  /\ sp_pc = [c \in Threads |-> "idle"]
  /\ resumed = {}

\* ------------------------------------------------------- Task, the handle
\* The Task objects of the program (locals, parameters, members) and the
\* longest global queue followed.
NumHandles == 3
Slots == 1..NumHandles
NoPtr == [task |-> NoTask, by |-> 0]

HandleKeep == UNCHANGED <<prog, ip, ph, done, is_running, wpc, wtask, crashed, reactorVars,
                          mutexVars, chanVars, stealVars, ebrVars, parkVars, idleVars, ioVars, timerVars, stopVars, localVars, coalesceVars, iterVars, pollVars, lockVars>>
Did(o, w, s, by) == h_op' = [op |-> o, w |-> w, s |-> s, by |-> by]

\* Task(const Task& o): the copy in slot d of the object in slot s.
Task_copy(s, d) ==
  /\ s # d /\ handle[d] = NoTask
  /\ handle' = [handle EXCEPT ![d] = handle[s]]
  /\ IF handle[s] # NoTask
     THEN ref_count' = [ref_count EXCEPT ![handle[s]] = @ + 1]
     ELSE UNCHANGED ref_count
  /\ Did("copy", 0, d, 0)
  /\ UNCHANGED <<frame, destroyed, global_queue_, ptr>>
  /\ HandleKeep

\* Task(Task&& o): the object in slot d is move-constructed from slot s.
Task_move(s, d) ==
  /\ s # d /\ handle[d] = NoTask /\ handle[s] # NoTask
  /\ handle' = [handle EXCEPT ![d] = handle[s], ![s] = NoTask]
  /\ Did("move", 0, d, 0)
  /\ UNCHANGED <<ref_count, frame, destroyed, global_queue_, ptr>>
  /\ HandleKeep

\* ~Task(): if (handle) dec_ref().
Task_dtor(s) ==
  /\ handle[s] # NoTask
  /\ dec_ref(handle[s])
  /\ handle' = [handle EXCEPT ![s] = NoTask]
  /\ Did("dtor", 0, s, 0)
  /\ UNCHANGED <<global_queue_, ptr>>
  /\ HandleKeep

\* The explicit constructor in place of the adopting one:
\* Task(std::coroutine_handle<Promise> h) adds a reference.
from_address_counting(w, d) ==
  /\ handle[d] = NoTask /\ ptr[w] # NoPtr
  /\ handle' = [handle EXCEPT ![d] = ptr[w].task]
  /\ ref_count' = [ref_count EXCEPT ![ptr[w].task] = @ + 1]
  /\ ptr' = [ptr EXCEPT ![w] = NoPtr]
  /\ Did("from_address", w, d, ptr[w].by)
  /\ UNCHANGED <<frame, destroyed, global_queue_>>
  /\ HandleKeep

\* void* p = t.detach(): the address goes to thread w's p, the handle is
\* nulled, ref_count is neither read nor written.
detach(w, s) ==
  /\ ptr[w] = NoPtr
  /\ ptr' = [ptr EXCEPT ![w] = IF handle[s] = NoTask THEN NoPtr
                               ELSE [task |-> handle[s], by |-> w]]
  /\ handle' = [handle EXCEPT ![s] = NoTask]
  /\ Did("detach", w, s, w)
  /\ UNCHANGED <<ref_count, frame, destroyed, global_queue_>>
  /\ HandleKeep

\* void* p = t.to_address(): the address with a reference of its own.
to_address(w, s) ==
  /\ ptr[w] = NoPtr
  /\ IF handle[s] # NoTask
     THEN /\ ref_count' = [ref_count EXCEPT ![handle[s]] = @ + 1]
          /\ ptr' = [ptr EXCEPT ![w] = [task |-> handle[s], by |-> w]]
     ELSE UNCHANGED <<ref_count, ptr>>
  /\ Did("to_address", w, s, w)
  /\ UNCHANGED <<handle, frame, destroyed, global_queue_>>
  /\ HandleKeep

\* The pointer is passed from thread w to thread v.
hand_over(w, v) ==
  /\ w # v /\ ptr[w] # NoPtr /\ ptr[v] = NoPtr
  /\ ptr' = [ptr EXCEPT ![v] = ptr[w], ![w] = NoPtr]
  /\ Did("hand_over", v, 0, ptr[w].by)
  /\ UNCHANGED <<handle, ref_count, frame, destroyed, global_queue_>>
  /\ HandleKeep

\* Task::from_address(p) on thread w, the result in slot d: the AdoptTag
\* constructor stores the handle and touches no count.
from_address(w, d) ==
  /\ handle[d] = NoTask /\ ptr[w] # NoPtr
  /\ handle' = [handle EXCEPT ![d] = ptr[w].task]
  /\ ptr' = [ptr EXCEPT ![w] = NoPtr]
  /\ Did("from_address", w, d, ptr[w].by)
  /\ UNCHANGED <<ref_count, frame, destroyed, global_queue_>>
  /\ HandleKeep

\* sched.spawn(std::move(t)) with t in slot s: t.detach(), then
\* global_queue_.push_ptr(ptr) = push(Task::from_address(ptr)).
Scheduler_spawn(s) ==
  /\ handle[s] # NoTask
  /\ Len(global_queue_) < NumHandles
  /\ global_queue_' = spawn(global_queue_, handle[s])
  /\ handle' = [handle EXCEPT ![s] = NoTask]
  /\ Did("spawn", 0, s, 0)
  /\ UNCHANGED <<ref_count, frame, destroyed, ptr>>
  /\ HandleKeep

\* GlobalQueue::pop: the front entry is moved out, into slot d.
GlobalQueue_pop(d) ==
  /\ handle[d] = NoTask
  /\ global_queue_ # <<>>
  /\ handle' = [handle EXCEPT ![d] = Head(global_queue_)]
  /\ global_queue_' = Tail(global_queue_)
  /\ Did("pop", 0, d, 0)
  /\ UNCHANGED <<ref_count, frame, destroyed, ptr>>
  /\ HandleKeep

HandleInit ==
  /\ handle = [s \in Slots |-> NoTask]
  /\ ptr = [w \in Workers |-> NoPtr]
  /\ h_op = [op |-> "none", w |-> 0, s |-> 0, by |-> 0]

IoInit ==
  /\ result_ = [t \in Tasks |-> 0]
  /\ eager = [t \in Tasks |-> [r |-> 0, e |-> "none"]]
  /\ io_ret = [t \in Tasks |-> NoRet]
  /\ registered = [t \in Tasks |-> <<>>]
  /\ errno = [w \in Workers |-> "0"]

\* ------------------------------------------------- Reactor: the timer heap
\* The clock runs to MaxTime; a sleep lasts 1..MaxDelay milliseconds.
MaxTime == 3
MaxDelay == 2
\* The tasks that sleep.
Sleepers == {t \in Tasks : t <= 2}
\* What the epoll Poller hands to the callback for its own wake_fd_:
\* ev.data.fd = wake_fd_ read back as data.ptr.
WakeFdPtr == -3
TimerKeep == UNCHANGED <<prog, ip, ph, done, frame, ref_count, is_running, destroyed, wpc,
                         wtask, io_reg, mutexVars, chanVars, stealVars, ebrVars, parkVars,
                         idleVars, handleVars, ioVars, stopVars, localVars, coalesceVars, iterVars, pollVars, lockVars>>

\* timers_.top().expiry
TopExpiry == CHOOSE x \in {expiry[t] : t \in timers_} :
               \A u \in timers_ : x <= expiry[u]

\* Time passes.
tick ==
  /\ ~crashed
  /\ now < MaxTime
  /\ now' = now + 1
  /\ UNCHANGED <<platform, expiry, a_pc, r_pc, r_deadline, wake_pending, spawned,
                 timers_, global_queue_, crashed>>
  /\ TimerKeep

\* AsyncSleep::await_suspend: expiry = now() + duration_;
\* Reactor::add_timer under mtx_: timers_.push({expiry, handle});
\* need_wake = (timers_.top().expiry == expiry).
add_timer(t, d) ==
  /\ ~crashed
  /\ a_pc[t] = "idle"
  /\ now + d <= MaxTime
  /\ expiry' = [expiry EXCEPT ![t] = now + d]
  /\ timers_' = timers_ \cup {t}
  /\ a_pc' = [a_pc EXCEPT ![t] =
                IF \A u \in timers_ : now + d <= expiry[u] THEN "wake" ELSE "done"]
  /\ UNCHANGED <<platform, now, r_pc, r_deadline, wake_pending, spawned, global_queue_,
                 crashed>>
  /\ TimerKeep

\* Reactor::add_timer, after the lock: if (need_wake) poller_.wake().
add_timer_wake(t) ==
  /\ ~crashed
  /\ a_pc[t] = "wake"
  /\ wake_pending' = TRUE
  /\ a_pc' = [a_pc EXCEPT ![t] = "done"]
  /\ UNCHANGED <<platform, now, expiry, r_pc, r_deadline, spawned, timers_, global_queue_,
                 crashed>>
  /\ TimerKeep

\* Reactor::loop, under mtx_: timeout_ms is -1 without timers, 0 when the top
\* timer is due, else the time to its expiry; poller_.wait is entered.
loop_timeout ==
  /\ ~crashed
  /\ r_pc = "timeout"
  /\ r_deadline' = IF timers_ = {} THEN -1
                   ELSE IF TopExpiry <= now THEN now ELSE TopExpiry
  /\ r_pc' = "wait"
  /\ UNCHANGED <<platform, now, expiry, a_pc, wake_pending, spawned, timers_,
                 global_queue_, crashed>>
  /\ TimerKeep

\* Poller::wait returns: the timeout ran out, or there is an event.  The
\* event of a wake is skipped when its data.ptr is null (epoll) or its filter
\* is EVFILT_USER (kqueue); the epoll Poller registered wake_fd_ with
\* data.fd = wake_fd_, so data.ptr is not null and the callback is called
\* with it: io_handler spawns Task::from_address of that value.
loop_wait ==
  /\ ~crashed
  /\ r_pc = "wait"
  /\ wake_pending \/ (r_deadline >= 0 /\ now >= r_deadline)
  /\ wake_pending' = FALSE
  /\ global_queue_' = IF wake_pending /\ platform = "epoll"
                      THEN spawn(global_queue_, WakeFdPtr) ELSE global_queue_
  /\ r_pc' = "pass"
  /\ UNCHANGED <<platform, now, expiry, a_pc, r_deadline, spawned, timers_, crashed>>
  /\ TimerKeep

\* The due timers in the order the heap pops them (q: the queue so far).
RECURSIVE SpawnDue(_, _)
SpawnDue(due, q) ==
  IF due = {} THEN q
  ELSE LET t == CHOOSE x \in due : \A u \in due : expiry[x] < expiry[u] \/
                                                  (expiry[x] = expiry[u] /\ x <= u)
       IN SpawnDue(due \ {t}, spawn(q, t))

\* Reactor::loop, the timer pass under mtx_: while the top timer's expiry is
\* <= now it is popped and spawn(Task::from_address(handle.address())).
loop_pass ==
  LET due == {t \in timers_ : expiry[t] <= now} IN
  /\ ~crashed
  /\ r_pc = "pass"
  /\ timers_' = timers_ \ due
  /\ global_queue_' = SpawnDue(due, global_queue_)
  /\ spawned' = [t \in Tasks |-> IF t \in due THEN spawned[t] + 1 ELSE spawned[t]]
  /\ r_pc' = "timeout"
  /\ UNCHANGED <<platform, now, expiry, a_pc, r_deadline, wake_pending, crashed>>
  /\ TimerKeep

\* A worker pops the front of the global queue and calls resume on it.  On
\* the value made from wake_fd_ the first read, handle.done(), goes through
\* a wild pointer: the process dies, or the read yields something and resume
\* returns.  (What resume does with a task is not followed here.)
worker_resume ==
  /\ ~crashed
  /\ global_queue_ # <<>>
  /\ global_queue_' = Tail(global_queue_)
  /\ IF Head(global_queue_) = WakeFdPtr
     THEN crashed' \in BOOLEAN
     ELSE UNCHANGED crashed
  /\ UNCHANGED <<platform, now, expiry, a_pc, r_pc, r_deadline, wake_pending, spawned,
                 timers_>>
  /\ TimerKeep

TimerInit ==
  /\ platform = "kqueue"
  /\ now = 0
  /\ expiry = [t \in Tasks |-> 0]
  /\ a_pc = [t \in Tasks |-> "idle"]
  /\ r_pc = "timeout"
  /\ r_deadline = -1
  /\ wake_pending = FALSE
  /\ spawned = [t \in Tasks |-> 0]

StopInit ==
  /\ stop_ = FALSE
  /\ running_ = TRUE
  /\ d_pc = "run"
  /\ d_i = 0
  /\ sr_pc = "loop"

LocalInit ==
  /\ item = NoTask
  /\ elem_task = [e \in 0..MaxPush |-> NoTask]
  /\ dropped = [e \in 0..MaxPush |-> 0]

CoalesceInit ==
  /\ issued = [w \in Workers |-> 0]
  /\ at_call = [w \in Workers |-> 0]

IterInit ==
  /\ ro_pc = [w \in Workers |-> "local"]
  /\ ro_task = [w \in Workers |-> NoTask]
  /\ ro_i = [w \in Workers |-> 0]
  /\ st_start = [w \in Workers |-> 0]
  /\ st_i = [w \in Workers |-> 0]
  /\ trail = [w \in Workers |-> <<>>]
  /\ local_queue_ = [w \in Workers |-> <<>>]
  /\ placed = 0

PollInit ==
  /\ interest = {}
  /\ events_ = <<>>
  /\ regs = <<>>
  /\ calls = <<>>

LockInit ==
  /\ op = [c \in Threads |-> "none"]
  /\ op_i = [c \in Threads |-> 0]
  /\ owner = [m \in {"queue", "wait", "chan", "timer", "ebr"} |-> 0]

LibInit == StealInit /\ EbrInit /\ ParkInit /\ IdleInit /\ HandleInit /\ IoInit /\ TimerInit /\ StopInit /\ LocalInit /\ CoalesceInit /\ IterInit /\ PollInit /\ LockInit

\* ------------------------------------------------ scheduler, common parts
SchedInit ==
  /\ ip = [t \in Tasks |-> 0]
  /\ ph = [t \in Tasks |-> "wait"]
  /\ done = [t \in Tasks |-> FALSE]
  /\ frame = [t \in Tasks |-> "none"]
  /\ ref_count = [t \in Tasks |-> 0]
  /\ is_running = [t \in Tasks |-> FALSE]
  /\ destroyed = [t \in Tasks |-> 0]
  /\ global_queue_ = <<>>
  /\ wpc = [w \in Workers |-> "idle"]
  /\ wtask = [w \in Workers |-> NoTask]
  /\ crashed = FALSE
  /\ timers_ = {}
  /\ io_reg = {}
  /\ locked_ = FALSE
  /\ waiters_ = <<>>
  /\ guards = [t \in Tasks |-> <<>>]
  /\ counter = 0
  /\ acquired = 0
  /\ unlock_calls = 0
  /\ enq_count = 0
  /\ ticket = [t \in Tasks |-> 0]
  /\ grant_count = 0
  /\ last_grant = 0
  /\ closed_ = FALSE
  /\ buffer_ = <<>>
  /\ send_waiters_ = <<>>
  /\ recv_waiters_ = <<>>
  /\ send_result = [t \in Tasks |-> TRUE]
  /\ recv_result = [t \in Tasks |-> None]
  /\ rets = [t \in Tasks |-> <<>>]
  /\ closed_on = [t \in Tasks |-> 0]
  /\ LibInit

SchedNext ==
  \/ \E t \in Tasks : Spawn(t)
  \/ \E w \in Workers : pop_global(w)
  \/ \E w \in Workers : resume_check(w)
  \/ \E w \in Workers : resume_cas(w)
  \/ \E w \in Workers : resume_after(w)
  \/ \E w \in Workers : drop_task(w)
  \/ \E w \in Workers : Crash(w)
  \/ \E w \in Workers, t \in Tasks : final_suspend(w, t)

\* ------------------------------------------- Spec: tasks that sleep or do I/O
LifePrograms == {<<"sleep">>, <<"read">>}

Init ==
  /\ prog \in [Tasks -> LifePrograms]
  /\ capacity_ = 0
  /\ SchedInit

Next ==
  \/ SchedNext
  \/ \E w \in Workers, t \in Tasks : AsyncSleep_await_suspend(w, t)
  \/ \E w \in Workers, t \in Tasks : AsyncSleep_await_resume(w, t)
  \/ \E t \in Tasks : Reactor_timer(t)
  \/ \E w \in Workers, t \in Tasks : AsyncRead_await_ready(w, t)
  \/ \E w \in Workers, t \in Tasks : AsyncRead_await_suspend(w, t)
  \/ \E w \in Workers, t \in Tasks : AsyncRead_await_resume(w, t)
  \/ \E t \in Tasks : Reactor_io_handler(t)

Spec == Init /\ [][Next]_vars

\* C1: the promise of a spawned task is destroyed at most once and only after
\* its body has run to completion; in particular never while the task is
\* suspended on a timer or on an I/O registration.
C1_DestroyedOnceAfterCompletion ==
  \A t \in Tasks :
    /\ destroyed[t] <= 1
    /\ Freed(t) => done[t]
    /\ (t \in timers_ \/ t \in io_reg) => ~Freed(t)

\* --------------------------- SpecMutex: tasks contending for one AsyncMutex
\* { auto guard = co_await mutex.lock(); counter++; }, the same with the guard
\* moved into a second ScopedLock before the scope ends, and two sections in a row.
PlainSection == <<"lock", "incr", "drop">>
MovedSection == <<"lock", "incr", "move", "drop", "drop">>
TwoSections == PlainSection \o PlainSection
MutexPrograms == {PlainSection, MovedSection, TwoSections}

\* Task 1 runs any of the programs, the others the plain section.
InitMutex ==
  /\ prog \in {p \in [Tasks -> MutexPrograms] :
                 \A t \in Tasks : t > 1 => p[t] = PlainSection}
  /\ capacity_ = 0
  /\ SchedInit

NextMutex ==
  \/ SchedNext
  \/ \E w \in Workers, t \in Tasks : LockAwaiter_await_ready(w, t)
  \/ \E w \in Workers, t \in Tasks : LockAwaiter_await_suspend(w, t)
  \/ \E w \in Workers, t \in Tasks : LockAwaiter_await_resume(w, t)
  \/ \E w \in Workers, t \in Tasks : Increment(w, t)
  \/ \E w \in Workers, t \in Tasks : ScopedLock_move(w, t)
  \/ \E w \in Workers, t \in Tasks : ScopedLock_dtor(w, t)

SpecMutex == InitMutex /\ [][NextMutex]_vars

\* A task holds the mutex from the await_resume of lock() to the drop of the
\* ScopedLock that owns it.
Holds(t) == \E i \in 1..Len(guards[t]) : guards[t][i]

\* C2: at most one task holds the mutex, in every reachable state.
C2_MutualExclusion == Cardinality({t \in Tasks : Holds(t)}) <= 1

\* unlock has passed the baton to a waiter that has not run yet, and another
\* task is about to try the fast path.
C2_Witness ==
  \E t, u \in Tasks :
    /\ t # u
    /\ Op(t) = "lock" /\ ph[t] = "wait" /\ ticket[t] = 0 /\ grant_count > 0
    /\ Op(u) = "lock" /\ ph[u] = "ready" /\ \E w \in Workers : Running(w, u)
    /\ locked_

\* Every task was spawned, nothing is queued and every worker is idle:
\* nothing will run any more.
Quiescent ==
  /\ \A t \in Tasks : frame[t] # "none"
  /\ global_queue_ = <<>>
  /\ \A w \in Workers : wpc[w] = "idle"

RECURSIVE CountIncr(_)
CountIncr(p) == IF p = <<>> THEN 0
                ELSE (IF Head(p) = "incr" THEN 1 ELSE 0) + CountIncr(Tail(p))

RECURSIVE SumIncr(_)
SumIncr(S) == IF S = {} THEN 0
              ELSE LET t == CHOOSE x \in S : TRUE IN CountIncr(prog[t]) + SumIncr(S \ {t})

\* C3: every contender completes all its iterations and no increment is lost:
\* once nothing can run any more, every task is done and the counter is N*K.
C3_AllCompleteCounterExact ==
  Quiescent => /\ \A t \in Tasks : done[t]
               /\ counter = SumIncr(Tasks)

\* C4: waiters are granted the mutex in the order in which they queued (the
\* k-th grant goes to the k-th handle pushed), and the mutex is acquired by a
\* caller of lock() only while the waiter queue is empty.
C4_FifoGrantNoBarging ==
  /\ [](last_grant = grant_count)
  /\ [][(~locked_ /\ locked_') => waiters_ = <<>>]_vars

\* After one grant, two tasks are queued behind the holder.
C4_Witness == grant_count >= 1 /\ Len(waiters_) >= 2 /\ \E t \in Tasks : Holds(t)

\* C5: unlock is called at most once per completed acquisition, and exactly
\* once per acquisition when no guard is in scope any more.
C5_UnlockPerAcquisition ==
  /\ unlock_calls <= acquired
  /\ (\A t \in Tasks : guards[t] = <<>>) => unlock_calls = acquired

\* Task 1 moved its guard, dropped both guards and finished; every
\* acquisition of the run has been released.
C5_Witness ==
  /\ prog[1] = MovedSection /\ done[1]
  /\ acquired = NumTasks
  /\ \A t \in Tasks : guards[t] = <<>>

\* ------------------------------------ SpecChan: tasks sharing one Channel
\* A producer sends two values, a consumer receives twice, a closer closes
\* the channel twice.
MaxCap == 1
Producer == <<"send", "send">>
Consumer == <<"recv", "recv">>
Closer == <<"close", "close">>
ChanPrograms == {Producer, Consumer, Closer}
ChanScenarios == {<<Producer, Consumer, Producer>>, <<Producer, Consumer, Consumer>>,
                  <<Producer, Consumer, Closer>>, <<Producer, Closer, Consumer>>}

\* Three tasks share the channel, in one of the scenarios; main creates no
\* further task.  The channel is constructed with a capacity of 0..MaxCap.
InitChan ==
  /\ prog \in {p \in [Tasks -> ChanPrograms \cup {<<>>}] :
                 \E s \in ChanScenarios :
                   \A t \in Tasks : p[t] = IF t <= Len(s) THEN s[t] ELSE <<>>}
  /\ capacity_ \in 0..MaxCap
  /\ SchedInit

NextChan ==
  \/ SchedNext
  \/ \E w \in Workers, t \in Tasks : SendAwaiter_await_suspend(w, t)
  \/ \E w \in Workers, t \in Tasks : SendAwaiter_await_resume(w, t)
  \/ \E w \in Workers, t \in Tasks : RecvAwaiter_await_suspend(w, t)
  \/ \E w \in Workers, t \in Tasks : RecvAwaiter_await_resume(w, t)
  \/ \E w \in Workers, t \in Tasks : Channel_close(w, t)

SpecChan == InitChan /\ [][NextChan]_vars

\* C6: with capacity k the buffer never holds more than k values; the buffer
\* and the receiver queue are never both non-empty; senders are queued only
\* while the buffer holds k values.
C6_ChannelShape ==
  /\ Len(buffer_) <= capacity_
  /\ ~(buffer_ # <<>> /\ recv_waiters_ # <<>>)
  /\ send_waiters_ # <<>> => Len(buffer_) = capacity_

\* A receiver took a value from the full buffer, which was refilled from a
\* suspended sender, while another sender is still queued behind a full buffer.
C6_Witness ==
  /\ capacity_ >= 1
  /\ Len(buffer_) = capacity_
  /\ send_waiters_ # <<>>
  /\ \E t \in Tasks : prog[t] = Consumer /\ rets[t] # <<>>

\* The operations of task t that have returned, by kind.
Returned(t, kind) == {i \in 1..Len(rets[t]) : prog[t][i] = kind}

\* The only frames destroyed so far are those of closers: a closer never
\* suspends, so its frame goes when it has completed and no handle to it is
\* left.  In such a state every frame access so far was to a live frame.
NoFrameLost == \A t \in Tasks : Freed(t) => prog[t] = Closer

\* Where a value is: how many recv calls returned it, how many buffer slots
\* hold it, and how many receivers have it in their awaiter and have not
\* returned from recv yet.
RecvCount(v) ==
  Cardinality({<<t, i>> \in Tasks \X (1..2) : i \in Returned(t, "recv") /\ rets[t][i] = v})
InBuffer(v) == Cardinality({i \in 1..Len(buffer_) : buffer_[i] = v})
InFlight(v) ==
  Cardinality({t \in Tasks : Op(t) = "recv" /\ ph[t] # "ready" /\ recv_result[t] = v})
Offered == {Val(t, i) : t \in Tasks, i \in 1..2}

\* C7: every value whose send returned true is received by exactly one recv
\* or is still on its way to one (never dropped, never duplicated), and every
\* value a recv returned was sent (never invented); also when close runs while
\* senders are suspended.  Stated for the states where no producer
\* and no consumer has lost its frame.
C7_SentOnceReceivedOnce ==
  NoFrameLost =>
    /\ \A t \in Tasks : \A i \in Returned(t, "send") :
         rets[t][i] = 1 =>
           RecvCount(Val(t, i)) + InBuffer(Val(t, i)) + InFlight(Val(t, i)) = 1
    /\ \A t \in Tasks : \A i \in Returned(t, "recv") :
         rets[t][i] # None => rets[t][i] \in Offered /\ RecvCount(rets[t][i]) = 1

\* C8: close leaves no task queued on the channel, and the operation a task was
\* suspended in when close ran returns false (a send) or none (a recv).
\* Stated for the states where no producer and no consumer has lost its frame.
C8_CloseFailsSuspended ==
  NoFrameLost =>
    /\ closed_ => send_waiters_ = <<>> /\ recv_waiters_ = <<>>
    /\ \A t \in Tasks :
         (closed_on[t] # 0 /\ Len(rets[t]) >= closed_on[t]) =>
           IF prog[t][closed_on[t]] = "send"
           THEN rets[t][closed_on[t]] = 0
           ELSE rets[t][closed_on[t]] = None

\* The values the recv calls of task t returned, the nones left out.
RECURSIVE Values(_)
Values(r) == IF r = <<>> THEN <<>>
             ELSE IF Head(r) = None THEN Values(Tail(r))
             ELSE <<Head(r)>> \o Values(Tail(r))
IsPrefix(a, b) == Len(a) <= Len(b) /\ \A i \in 1..Len(a) : a[i] = b[i]

\* C9: with one producer and one consumer (the third task only closes) the
\* consumer receives the values in the order the producer sent them, none
\* overtaking an earlier one.
C9_FifoOrder ==
  \A p, c \in Tasks :
    (/\ prog[p] = Producer
     /\ prog[c] = Consumer
     /\ \A t \in Tasks \ {p, c} : prog[t] \in {Closer, <<>>})
    => IsPrefix(Values(rets[c]), <<Val(p, 1), Val(p, 2)>>)

\* The step in which task t issues a send on the closed channel (its
\* await_suspend runs), and the step in which task t calls close on it.
SendOnClosed(t) ==
  closed_ /\ ~crashed' /\ Op(t) = "send" /\ ph[t] = "ready" /\ ph'[t] # "ready"
CloseOnClosed(t) ==
  closed_ /\ ~crashed' /\ Op(t) = "close" /\ ip'[t] = ip[t] + 1

\* C10: once closed the channel stays closed; a send issued after close does
\* not suspend, leaves the buffer and both queues as they are and returns
\* false; a second close changes nothing.
C10_ClosedForGood ==
  /\ [][closed_ => closed_']_vars
  /\ [][\A t \in Tasks :
          SendOnClosed(t) =>
            /\ ph'[t] = "res"
            /\ ~send_result'[t]
            /\ UNCHANGED <<buffer_, send_waiters_, recv_waiters_, global_queue_>>]_vars
  /\ [][\A t \in Tasks :
          (~crashed' /\ Op(t) = "send" /\ ph[t] = "res" /\ ~send_result[t]) =>
            /\ ~send_result'[t]
            /\ rets'[t] # rets[t] => rets'[t] = Append(rets[t], 0)]_vars
  /\ [][\A t \in Tasks :
          CloseOnClosed(t) =>
            UNCHANGED <<closed_, buffer_, send_waiters_, recv_waiters_, send_result,
                        recv_result, global_queue_>>]_vars

\* The channel was closed with nobody suspended on it, the closer has run
\* both its close calls, and a producer whose first send went into the buffer
\* has had false from the send it issued after the close.
C10_Witness ==
  /\ closed_
  /\ NoFrameLost
  /\ \A t \in Tasks : closed_on[t] = 0
  /\ \E t \in Tasks : prog[t] = Closer /\ done[t]
  /\ \E t \in Tasks : prog[t] = Producer /\ rets[t] = <<1, 0>>

\* The step in which task t issues a recv (its await_suspend runs).
RecvStep(t) == ~crashed' /\ Op(t) = "recv" /\ ph[t] = "ready" /\ ph'[t] # "ready"

\* C11: a recv on the closed channel does not suspend; it takes the front of
\* the buffer, and its result is none exactly when the buffer is empty and no
\* sender waits; recv returns that result; a recv on the open channel with
\* empty buffer and no waiting sender suspends in recv_waiters_.
C11_RecvOnClosed ==
  /\ [][\A t \in Tasks :
          (closed_ /\ RecvStep(t)) =>
            /\ ph'[t] = "res"
            /\ recv_waiters_' = recv_waiters_
            /\ buffer_ # <<>> =>
                 recv_result'[t] = Head(buffer_) /\ buffer_' = Tail(buffer_)
            /\ (recv_result'[t] = None) <=> (buffer_ = <<>> /\ send_waiters_ = <<>>)]_vars
  /\ [][\A t \in Tasks :
          (~crashed' /\ Op(t) = "recv" /\ ph[t] = "res") =>
            /\ recv_result'[t] = recv_result[t]
            /\ rets'[t] # rets[t] => rets'[t] = Append(rets[t], recv_result[t])]_vars
  /\ [][\A t \in Tasks :
          (~closed_ /\ buffer_ = <<>> /\ send_waiters_ = <<>> /\ RecvStep(t)) =>
            ph'[t] = "wait" /\ recv_waiters_' = Append(recv_waiters_, t)]_vars

\* The producer's first send was buffered and its second refused after the
\* close; the consumer, never suspended, has had the buffered value and then
\* none from its recv on the closed channel.
C11_Witness ==
  /\ closed_
  /\ NoFrameLost
  /\ \E p, c \in Tasks :
       /\ prog[p] = Producer /\ rets[p] = <<1, 0>>
       /\ prog[c] = Consumer /\ rets[c] = <<Val(p, 1), None>> /\ closed_on[c] = 0

\* ------------------- SpecSteal: one StealQueue, its owner and the thieves
\* No coroutine is created; the owner pushes up to MaxPush elements and pops
\* at will, every thread of Workers steals at will.
InitSteal ==
  /\ prog = [t \in Tasks |-> <<>>]
  /\ capacity_ = 0
  /\ SchedInit

NextSteal ==
  \/ push_load
  \/ push_resize
  \/ push_put
  \/ push_bottom
  \/ pop_dec
  \/ pop_top
  \/ pop_get
  \/ pop_cas
  \/ pop_restore
  \/ \E w \in Workers : steal_top(w)
  \/ \E w \in Workers : steal_bottom(w)
  \/ \E w \in Workers : steal_array(w)
  \/ \E w \in Workers : steal_get(w)
  \/ \E w \in Workers : steal_cas(w)

SpecSteal == InitSteal /\ [][NextSteal]_vars

\* The elements in the deque: those in the slots top..bottom-1 of the current Array.
InDeque(e) == Cardinality({i \in top..(bottom - 1) : get(arrays[array], i) = e})
Returns(e) == popped[e] + stolen[e]

\* C12: no element is returned by more than one successful pop or steal, a
\* pop or steal never returns anything that was not pushed, and whenever the
\* owner is between calls every element pushed is either still in the deque
\* or has been returned by exactly one pop or steal.
C12_ExactlyOnce ==
  /\ \A e \in Elements : Returns(e) <= 1
  /\ Returns(0) = 0
  /\ \A e \in Elements : e > pushed => Returns(e) = 0
  /\ o_pc = "idle" => \A e \in 1..pushed : Returns(e) + InDeque(e) = 1

\* After a resize, one element has been stolen, one popped and one is still
\* in the deque, and a thief that read top earlier is about to lose its
\* compare_exchange.
C12_Witness ==
  /\ Len(arrays) >= 2
  /\ o_pc = "idle"
  /\ \E e \in Elements : stolen[e] = 1
  /\ \E e \in Elements : popped[e] = 1
  /\ \E e \in Elements : InDeque(e) = 1
  /\ \E w \in Workers : s_pc[w] = "steal_cas" /\ s_t[w] < top

\* ---------------------------------------------------------------------
\* EbrManager on its own: every registered thread enters, leaves, retires
\* nodes and (every (GcEvery + 1)-th retire) tries to advance the epoch.
InitEbr ==
  /\ prog = [t \in Tasks |-> <<>>]
  /\ capacity_ = 0
  /\ SchedInit

NextEbr ==
  \E w \in Workers :
    \/ enter_load(w)
    \/ enter_epoch(w)
    \/ enter_active(w)
    \/ exit(w)
    \/ retire_load(w)
    \/ retire_push(w)
    \/ advance_load(w)
    \/ advance_lock(w)
    \/ advance_active(w)
    \/ advance_epoch(w)
    \/ advance_store(w)
    \/ advance_clean(w)

SpecEbr == InitEbr /\ [][NextEbr]_vars

\* The retire epochs of the nodes whose deleters run in this step.
Deleted == UNION {retire_bins[u][i] \ retire_bins'[u][i] : u \in Workers, i \in 1..NumBins}

\* C13: the deleter of a retired node never runs while a registered thread
\* is inside a critical section (active) that it entered at an epoch less
\* than or equal to the epoch at which the node was retired.
C13_NoEarlyReclaim ==
  [][\A r \in Deleted : \A w \in Workers : active[w] => entered_at[w] > r]_vars

\* ---------------------------------------------------------------------
\* Parker on its own: Parker objects share nothing, so one of them is
\* followed, that of worker 1.  Its worker parks when it likes, each other
\* thread wakes it when it likes.
ParkFrame == UNCHANGED <<prog, schedVars, reactorVars, mutexVars, chanVars, stealVars, ebrVars, idleVars, handleVars, ioVars, timerVars, stopVars, localVars, coalesceVars, iterVars, pollVars, lockVars>>

\* parker_.park() is called.
park(w) ==
  /\ p_pc[w] = "out"
  /\ p_pc' = [p_pc EXCEPT ![w] = "park_cas"]
  /\ UNCHANGED <<state, u_pc, u_w, unparked>>

\* Worker::wake: parker_.unpark() is called.
wake(c, w) ==
  /\ u_pc[c] = "idle"
  /\ u_pc' = [u_pc EXCEPT ![c] = "exchange"]
  /\ u_w' = [u_w EXCEPT ![c] = w]
  /\ UNCHANGED <<state, p_pc, unparked>>

\* The steps of a park() that was called.
ParkRun(w) == park_cas(w) \/ park_load(w) \/ park_wait(w) \/ park_store(w)
\* The steps of an unpark() that was called.
UnparkRun(c) == unpark_exchange(c) \/ unpark_notify(c)

InitParker ==
  /\ prog = [t \in Tasks |-> <<>>]
  /\ capacity_ = 0
  /\ SchedInit

NextParker ==
  \/ (park(1) \/ ParkRun(1) \/ park_spurious(1)) /\ ParkFrame
  \/ \E c \in Threads \ {1} : (wake(c, 1) \/ UnparkRun(c)) /\ ParkFrame

\* Every thread that is inside park or unpark goes on running; nothing
\* obliges a thread to call either, and a spurious return is never owed.
SpecParker ==
  /\ InitParker
  /\ [][NextParker]_vars
  /\ WF_vars(ParkRun(1) /\ ParkFrame)
  /\ \A c \in Threads \ {1} : WF_vars(UnparkRun(c) /\ ParkFrame)

\* C14: a park() for which an unpark was issued, before the call (since
\* the previous park returned) or while it is in progress, returns.
C14_UnparkEndsPark ==
  \A w \in Workers : (p_pc[w] # "out" /\ unparked[w]) ~> (p_pc[w] = "out")

\* A worker blocked in wait whose parker was set to NOTIFIED by an unpark
\* that has not notified yet.
C14_Witness ==
  \E w \in Workers : \E c \in Threads :
    /\ p_pc[w] = "park_blocked" /\ unparked[w] /\ state[w] = NOTIFIED
    /\ u_pc[c] = "notify" /\ u_w[c] = w

\* ---------------------------------------------------------------------
\* The idle protocol: the main thread and the reactor thread spawn up to
\* MaxSpawn tasks, workers run Worker::run_once in a loop.  The local deques stay empty
\* (nothing calls Worker::schedule).  A pop_global that finds nothing only
\* matters when it is the last one before park, so the tries of run_once
\* are followed as one: the one that finds a task, or the last of the spin
\* loop.

MaxSpawn == 2
Spawners == {ReactorThread, MainThread}

IdleFrame ==
  UNCHANGED <<prog, ip, ph, done, frame, ref_count, is_running, destroyed, wpc, wtask,
              crashed, reactorVars, mutexVars, chanVars, stealVars, ebrVars, handleVars, ioVars, timerVars, stopVars, localVars, coalesceVars, iterVars, pollVars, lockVars>>

\* The tasks that were pushed on the global queue so far.
Pushed == (resumed \cup {global_queue_[i] : i \in 1..Len(global_queue_)}
                  \cup {i_task[w] : w \in Workers}) \ {NoTask}

\* Scheduler::spawn: t.detach(); global_queue_.push_ptr(ptr).
spawn_push(c, t) ==
  /\ sp_pc[c] = "idle" /\ u_pc[c] = "idle"
  /\ t = Cardinality(Pushed) + 1
  /\ global_queue_' = spawn(global_queue_, t)
  /\ sp_pc' = [sp_pc EXCEPT ![c] = "fetch_add"]
  /\ UNCHANGED <<parkVars, i_pc, i_task, next, resumed>>
  /\ IdleFrame

\* spawn that always wakes the first worker.
spawn_wake_first(c) ==
  /\ sp_pc[c] = "fetch_add"
  /\ next' = next + 1
  /\ sp_pc' = [sp_pc EXCEPT ![c] = "idle"]
  /\ wake(c, 1)
  /\ UNCHANGED <<global_queue_, i_pc, i_task, resumed>>
  /\ IdleFrame

\* spawn that wakes nobody.
spawn_wake_nobody(c) ==
  /\ sp_pc[c] = "fetch_add"
  /\ next' = next + 1
  /\ sp_pc' = [sp_pc EXCEPT ![c] = "idle"]
  /\ UNCHANGED <<global_queue_, parkVars, i_pc, i_task, resumed>>
  /\ IdleFrame

\* Scheduler::spawn: workers_[next.fetch_add(1) % workers_.size()]->wake().
spawn_wake(c) ==
  /\ sp_pc[c] = "fetch_add"
  /\ next' = next + 1
  /\ sp_pc' = [sp_pc EXCEPT ![c] = "idle"]
  /\ wake(c, (next % NumWorkers) + 1)
  /\ UNCHANGED <<global_queue_, i_pc, i_task, resumed>>
  /\ IdleFrame

\* Worker::run_once: a pop_global that finds a task, in the first block
\* (where local_queue_->pop() found nothing) or in the spin loop.
run_once_pop(w) ==
  /\ i_pc[w] = "find"
  /\ global_queue_ # <<>>
  /\ i_task' = [i_task EXCEPT ![w] = Head(global_queue_)]
  /\ global_queue_' = Tail(global_queue_)
  /\ i_pc' = [i_pc EXCEPT ![w] = "resume"]
  /\ UNCHANGED <<parkVars, next, sp_pc, resumed>>
  /\ IdleFrame

\* Worker::run_once: task->resume() / t->resume() returns, and so does
\* run_once.
run_once_resume(w) ==
  /\ i_pc[w] = "resume"
  /\ resumed' = resumed \cup {i_task[w]}
  /\ i_task' = [i_task EXCEPT ![w] = NoTask]
  /\ i_pc' = [i_pc EXCEPT ![w] = "find"]
  /\ UNCHANGED <<global_queue_, parkVars, next, sp_pc>>
  /\ IdleFrame

\* Worker::run_once: the last pop_global of the spin loop finds nothing
\* and parker_.park() is called.  (The tries before it found nothing either
\* and changed nothing; Scheduler::steal found the local deques empty.)
run_once_idle(w) ==
  /\ i_pc[w] = "find"
  /\ global_queue_ = <<>>
  /\ i_pc' = [i_pc EXCEPT ![w] = "park"]
  /\ park(w)
  /\ UNCHANGED <<global_queue_, i_task, next, sp_pc, resumed>>
  /\ IdleFrame

\* Worker::run_once: a step inside parker_.park(); when park returns, so
\* does run_once, and Worker::run calls it again.
run_once_park(w) ==
  /\ i_pc[w] = "park"
  /\ ParkRun(w)
  /\ i_pc' = [i_pc EXCEPT ![w] = IF p_pc'[w] = "out" THEN "find" ELSE @]
  /\ UNCHANGED <<global_queue_, i_task, next, sp_pc, resumed>>
  /\ IdleFrame

WorkerRun(w) ==
  \/ run_once_pop(w)
  \/ run_once_resume(w)
  \/ run_once_idle(w)
  \/ run_once_park(w)

\* The rest of a spawn after its push.
SpawnRun(c) == spawn_wake(c) \/ (UnparkRun(c) /\ UNCHANGED <<global_queue_, idleVars>> /\ IdleFrame)

InitIdle ==
  /\ prog = [t \in Tasks |-> <<>>]
  /\ capacity_ = 0
  /\ SchedInit

NextIdle ==
  \/ \E c \in Spawners : (\E t \in 1..MaxSpawn : spawn_push(c, t)) \/ SpawnRun(c)
  \/ \E w \in Workers : WorkerRun(w)
  \/ \E w \in Workers : park_spurious(w) /\ UNCHANGED <<global_queue_, idleVars>> /\ IdleFrame

\* Workers and the callers inside spawn go on running; every resume returns.
SpecIdle ==
  /\ InitIdle
  /\ [][NextIdle]_vars
  /\ \A w \in Workers : WF_vars(WorkerRun(w))
  /\ \A c \in Spawners : WF_vars(SpawnRun(c))

\* Worker w is blocked in park and nothing is on its way to wake it.
Asleep(w) ==
  /\ p_pc[w] = "park_blocked" /\ state[w] = PARKED
  /\ \A c \in Threads : u_w[c] # w
\* A spawn that pushed its task and has not yet chosen the worker it wakes.
Waking == \E c \in Threads : sp_pc[c] = "fetch_add"

\* C15: every task pushed on the global queue by spawn is eventually
\* popped by a worker (the queue is first in, first out, so a task that is
\* never popped keeps it non-empty for ever), and the global queue is never
\* non-empty while every worker is blocked in park with no notification
\* pending.
C15_NoLostWakeup ==
  /\ (global_queue_ # <<>>) ~> (global_queue_ = <<>>)
  /\ [](global_queue_ # <<>> => (Waking \/ \E w \in Workers : ~Asleep(w)))

\* A task sits in the queue, every worker is blocked in park, and the
\* wake of the spawn is in flight.
C15_Witness ==
  /\ global_queue_ # <<>>
  /\ \A w \in Workers : p_pc[w] = "park_blocked"
  /\ \E c \in Threads : u_pc[c] = "notify"
  /\ resumed # {}

\* ---------------------------------------------------------------------
\* Task::resume on its own: the main thread creates one coroutine and keeps
\* its handle; each worker thread copies the handle, calls resume on its
\* copy and lets the copy go, again and again.
ResumeBody == <<"sleep", "sleep">>

\* Task t = coro(): Promise::ref_count{1}, initial_suspend.
get_return_object(t) ==
  /\ ~crashed
  /\ prog[t] # <<>>
  /\ frame[t] = "none"
  /\ frame' = [frame EXCEPT ![t] = "live"]
  /\ ref_count' = [ref_count EXCEPT ![t] = 1]
  /\ UNCHANGED <<prog, ip, ph, done, is_running, destroyed, global_queue_, wpc, wtask,
                 crashed, reactorVars, mutexVars, chanVars, libVars>>

\* Task copy(t): the copy constructor adds a reference; copy.resume() is called.
resume(w, t) ==
  /\ ~crashed
  /\ wpc[w] = "idle"
  /\ frame[t] = "live"
  /\ ref_count' = [ref_count EXCEPT ![t] = @ + 1]
  /\ wtask' = [wtask EXCEPT ![w] = t]
  /\ wpc' = [wpc EXCEPT ![w] = "check"]
  /\ UNCHANGED <<prog, ip, ph, done, frame, is_running, destroyed, global_queue_, crashed,
                 reactorVars, mutexVars, chanVars, libVars>>

InitResume ==
  /\ prog = [t \in Tasks |-> IF t = 1 THEN ResumeBody ELSE <<>>]
  /\ capacity_ = 0
  /\ SchedInit

NextResume ==
  \/ \E t \in Tasks : get_return_object(t)
  \/ \E w \in Workers, t \in Tasks : resume(w, t)
  \/ \E w \in Workers : resume_check(w)
  \/ \E w \in Workers : resume_cas(w)
  \/ \E w \in Workers : resume_finished(w)
  \/ \E w \in Workers : resume_after(w)
  \/ \E w \in Workers : drop_task(w)
  \/ \E w \in Workers : Crash(w)
  \/ \E w \in Workers, t \in Tasks : AsyncSleep_await_suspend(w, t)
  \/ \E w \in Workers, t \in Tasks : AsyncSleep_await_resume(w, t)
  \/ \E w \in Workers, t \in Tasks : final_suspend(w, t)

SpecResume == InitResume /\ [][NextResume]_vars

\* Worker w takes a step of Task::resume (the test, the compare_exchange,
\* handle.resume(), the store) on a task that has finished.
ResumeOnFinished(w) ==
  /\ ~crashed
  /\ wpc[w] \in {"check", "cas", "undefined", "after"}
  /\ done[wtask[w]]
  /\ wpc'[w] # wpc[w]

\* C16: at most one thread is inside the body of a task at any time, and
\* resume on a task that has finished changes nothing: it never calls
\* handle.resume(), and it leaves the promise and the coroutine as they are.
C16_ResumeSerialised ==
  /\ [](\A t \in Tasks : Cardinality({w \in Workers : Running(w, t)}) <= 1)
  /\ [][\A w \in Workers : ResumeOnFinished(w) =>
          /\ ~crashed' /\ wpc'[w] # "undefined"
          /\ <<ip, ph, done, frame, ref_count, is_running, destroyed>>' =
             <<ip, ph, done, frame, ref_count, is_running, destroyed>>]_vars

\* ---------------------------------------------------------------------
\* The handle on its own: main made a coroutine, Task t = coro(), with
\* ref_count 1 and one Task object owning it.
InitHandle ==
  /\ prog = [t \in Tasks |-> IF t = 1 THEN <<"sleep">> ELSE <<>>]
  /\ capacity_ = 0
  /\ ip = [t \in Tasks |-> 0]
  /\ ph = [t \in Tasks |-> "wait"]
  /\ done = [t \in Tasks |-> FALSE]
  /\ frame = [t \in Tasks |-> IF t = 1 THEN "live" ELSE "none"]
  /\ ref_count = [t \in Tasks |-> IF t = 1 THEN 1 ELSE 0]
  /\ is_running = [t \in Tasks |-> FALSE]
  /\ destroyed = [t \in Tasks |-> 0]
  /\ global_queue_ = <<>>
  /\ wpc = [w \in Workers |-> "idle"]
  /\ wtask = [w \in Workers |-> NoTask]
  /\ crashed = FALSE
  /\ timers_ = {} /\ io_reg = {}
  /\ locked_ = FALSE /\ waiters_ = <<>> /\ guards = [t \in Tasks |-> <<>>]
  /\ counter = 0 /\ acquired = 0 /\ unlock_calls = 0 /\ enq_count = 0
  /\ ticket = [t \in Tasks |-> 0] /\ grant_count = 0 /\ last_grant = 0
  /\ closed_ = FALSE /\ buffer_ = <<>> /\ send_waiters_ = <<>> /\ recv_waiters_ = <<>>
  /\ send_result = [t \in Tasks |-> TRUE] /\ recv_result = [t \in Tasks |-> None]
  /\ rets = [t \in Tasks |-> <<>>] /\ closed_on = [t \in Tasks |-> 0]
  /\ StealInit /\ EbrInit /\ ParkInit /\ IdleInit /\ IoInit /\ TimerInit /\ StopInit /\ LocalInit /\ CoalesceInit /\ IterInit /\ PollInit /\ LockInit
  /\ handle = [s \in Slots |-> IF s = 1 THEN 1 ELSE NoTask]
  /\ ptr = [w \in Workers |-> NoPtr]
  /\ h_op = [op |-> "none", w |-> 0, s |-> 0, by |-> 0]

NextHandle ==
  \/ \E s, d \in Slots : Task_copy(s, d)
  \/ \E s, d \in Slots : Task_move(s, d)
  \/ \E s \in Slots : Task_dtor(s)
  \/ \E w \in Workers, s \in Slots : detach(w, s)
  \/ \E w \in Workers, s \in Slots : to_address(w, s)
  \/ \E w, v \in Workers : hand_over(w, v)
  \/ \E w \in Workers, d \in Slots : from_address(w, d)
  \/ \E s \in Slots : Scheduler_spawn(s)
  \/ \E d \in Slots : GlobalQueue_pop(d)

SpecHandle == InitHandle /\ [][NextHandle]_vars

\* The Task objects that own task t (slots and global-queue entries), and
\* the raw pointers to t that carry a reference.
OwningHandles(t) ==
  Cardinality({s \in Slots : handle[s] = t})
    + Cardinality({i \in 1..Len(global_queue_) : global_queue_[i] = t})
RawPointers(t) == Cardinality({w \in Workers : ptr[w].task = t})

\* C17: detach leaves the handle empty and the count as it was, from_address
\* makes one owning handle of the pointer and leaves the count as it was (on
\* whichever thread it runs), and so does Scheduler::spawn into the global
\* queue: the count of a task always equals the number of its owning handles
\* plus the detached pointers on their way to an adoption.
C17_DetachAdopt ==
  /\ [](\A t \in Tasks : ref_count[t] = OwningHandles(t) + RawPointers(t))
  /\ [][h_op'.op = "detach" =>
          /\ ref_count' = ref_count
          /\ handle'[h_op'.s] = NoTask
          /\ ptr'[h_op'.w].task = handle[h_op'.s]
          /\ \A t \in Tasks : OwningHandles(t)' + RawPointers(t)' = ref_count[t]]_vars
  /\ [][h_op'.op = "from_address" =>
          /\ ref_count' = ref_count
          /\ handle'[h_op'.s] = ptr[h_op'.w].task
          /\ ptr'[h_op'.w] = NoPtr
          /\ \A t \in Tasks : OwningHandles(t)' + RawPointers(t)' = ref_count[t]]_vars
  /\ [][h_op'.op = "spawn" =>
          /\ ref_count' = ref_count
          /\ handle'[h_op'.s] = NoTask
          /\ global_queue_' = Append(global_queue_, handle[h_op'.s])]_vars

\* A pointer detached on one thread was adopted on another, while a second
\* handle of the same task exists.
C17_Witness ==
  /\ h_op.op = "from_address"
  /\ h_op.by # h_op.w
  /\ handle[h_op.s] # NoTask
  /\ ref_count[handle[h_op.s]] = 2
  /\ OwningHandles(handle[h_op.s]) = 2
  /\ \E s \in Slots : s # h_op.s /\ handle[s] = handle[h_op.s]

\* ---------------------------------------------------------------------
\* SpecIo: three tasks, one that reads, one that writes and one that accepts
\* on a non-blocking socket.
IoKind(t) == IF t % 3 = 1 THEN "read" ELSE IF t % 3 = 2 THEN "write" ELSE "accept"

InitIo ==
  /\ prog = [t \in Tasks |-> IF t <= 3 THEN <<IoKind(t)>> ELSE <<>>]
  /\ capacity_ = 0
  /\ SchedInit

NextIo ==
  \/ \E t \in Tasks : Spawn(t)
  \/ \E w \in Workers : pop_global(w)
  \/ \E w \in Workers : resume_check(w)
  \/ \E w \in Workers : resume_cas(w)
  \/ \E w \in Workers : resume_after(w)
  \/ \E w \in Workers : drop_task(w)
  \/ \E w \in Workers, t \in Tasks : final_suspend(w, t)
  \/ \E w \in Workers, t \in Tasks : AsyncRead_await_ready(w, t)
  \/ \E w \in Workers, t \in Tasks : AsyncRead_await_suspend(w, t)
  \/ \E w \in Workers, t \in Tasks : AsyncRead_await_resume(w, t)
  \/ \E w \in Workers, t \in Tasks : AsyncWrite_await_ready(w, t)
  \/ \E w \in Workers, t \in Tasks : AsyncWrite_await_suspend(w, t)
  \/ \E w \in Workers, t \in Tasks : AsyncWrite_await_resume(w, t)
  \/ \E w \in Workers, t \in Tasks : AsyncAccept_await_ready(w, t)
  \/ \E w \in Workers, t \in Tasks : AsyncAccept_await_suspend(w, t)
  \/ \E w \in Workers, t \in Tasks : AsyncAccept_await_resume(w, t)
  \/ \E t \in Tasks : Reactor_io_handler(t)

SpecIo == InitIo /\ [][NextIo]_vars

\* The Task objects that own task t: a worker's std::optional<Task> and the
\* entries of the global queue.
TaskObjects(t) ==
  Cardinality({w \in Workers : wtask[w] = t})
    + Cardinality({i \in 1..Len(global_queue_) : global_queue_[i] = t})

\* C18: a task registered with the reactor is suspended in its awaiter, its
\* frame is alive and its count is the number of Task objects that own it
\* plus exactly one; a task that is not registered has no extra reference;
\* the io_handler step leaves the count as it is and puts the handle,
\* still alive, on the global queue.
C18_RegistrationHoldsOneRef ==
  /\ [](\A t \in Tasks :
          /\ ref_count[t] = TaskObjects(t) + (IF t \in io_reg THEN 1 ELSE 0)
          /\ t \in io_reg => frame[t] = "live" /\ ph[t] = "wait" /\ Op(t) \in IoOps)
  /\ [][\A t \in Tasks : (t \in io_reg /\ t \notin io_reg') =>
          /\ ref_count' = ref_count
          /\ global_queue_' = Append(global_queue_, t)
          /\ frame'[t] = "live"]_vars

\* A write is registered, the reactor's reference is the second one.
C18_Witness ==
  \E t \in Tasks :
    /\ t \in io_reg /\ registered[t] = <<"write">>
    /\ ref_count[t] = 2 /\ TaskObjects(t) = 1

\* The await of t has run await_ready.
Tried(t) == Op(t) \in IoOps /\ ph[t] # "ready" /\ eager[t].e # "none"
WouldBlock(t) == eager[t].r < 0 /\ eager[t].e = "EAGAIN"

\* C20: the awaiter suspends and registers, once, exactly when the eager
\* call failed with EAGAIN; otherwise there is no registration, the count
\* stays as it was, and await_resume returns what the eager call returned.
C20_SuspendIffWouldBlock ==
  /\ [](\A t \in Tasks :
          /\ Len(registered[t]) <= 1
          /\ Tried(t) /\ WouldBlock(t) => ph[t] = "susp" \/ Len(registered[t]) = 1
          /\ registered[t] # <<>> => eager[t].e # "none" /\ WouldBlock(t)
          /\ ph[t] = "susp" => WouldBlock(t)
          /\ eager[t].e # "none" /\ ~WouldBlock(t) =>
               /\ registered[t] = <<>> /\ t \notin io_reg
               /\ ref_count[t] = TaskObjects(t)
               /\ io_ret[t] # NoRet => io_ret[t] = eager[t].r)
  /\ [][\A t \in Tasks :
          (eager'[t].e # "none" /\ ~WouldBlock(t)' /\ Op(t) \in IoOps /\ <<ip[t], ph[t]>>' # <<ip[t], ph[t]>>)
            => ref_count'[t] = ref_count[t] /\ io_reg' = io_reg]_vars

\* An accept failed for good: no suspension, and await_resume returned -1.
C20_Witness ==
  \E t \in Tasks :
    /\ prog[t] = <<"accept">> /\ eager[t] = [r |-> -1, e |-> "ECONNRESET"]
    /\ io_ret[t] = -1 /\ registered[t] = <<>> /\ done[t]

\* ---------------------------------------------------------------------
\* SpecTimer: the reactor thread, the clock, tasks that call sleep_for, and
\* a worker, on either Poller.  The reactor's loop, the clock, a started
\* add_timer and the worker keep going (weak fairness); when a task sleeps
\* is up to the task.
InitTimer ==
  /\ prog = [t \in Tasks |-> IF t \in Sleepers THEN <<"sleep">> ELSE <<>>]
  /\ capacity_ = 0
  /\ ip = [t \in Tasks |-> 0]
  /\ ph = [t \in Tasks |-> "wait"]
  /\ done = [t \in Tasks |-> FALSE]
  /\ frame = [t \in Tasks |-> "none"]
  /\ ref_count = [t \in Tasks |-> 0]
  /\ is_running = [t \in Tasks |-> FALSE]
  /\ destroyed = [t \in Tasks |-> 0]
  /\ global_queue_ = <<>>
  /\ wpc = [w \in Workers |-> "idle"]
  /\ wtask = [w \in Workers |-> NoTask]
  /\ crashed = FALSE
  /\ timers_ = {} /\ io_reg = {}
  /\ locked_ = FALSE /\ waiters_ = <<>> /\ guards = [t \in Tasks |-> <<>>]
  /\ counter = 0 /\ acquired = 0 /\ unlock_calls = 0 /\ enq_count = 0
  /\ ticket = [t \in Tasks |-> 0] /\ grant_count = 0 /\ last_grant = 0
  /\ closed_ = FALSE /\ buffer_ = <<>> /\ send_waiters_ = <<>> /\ recv_waiters_ = <<>>
  /\ send_result = [t \in Tasks |-> TRUE] /\ recv_result = [t \in Tasks |-> None]
  /\ rets = [t \in Tasks |-> <<>>] /\ closed_on = [t \in Tasks |-> 0]
  /\ StealInit /\ EbrInit /\ ParkInit /\ IdleInit /\ HandleInit /\ IoInit /\ StopInit /\ LocalInit /\ CoalesceInit /\ IterInit /\ PollInit /\ LockInit
  /\ platform \in {"epoll", "kqueue"}
  /\ now = 0
  /\ expiry = [t \in Tasks |-> 0]
  /\ a_pc = [t \in Tasks |-> "idle"]
  /\ r_pc = "timeout"
  /\ r_deadline = -1
  /\ wake_pending = FALSE
  /\ spawned = [t \in Tasks |-> 0]

ReactorRun == loop_timeout \/ loop_wait \/ loop_pass

NextTimer ==
  \/ tick
  \/ \E t \in Sleepers, d \in 1..MaxDelay : add_timer(t, d)
  \/ \E t \in Sleepers : add_timer_wake(t)
  \/ loop_timeout
  \/ loop_wait
  \/ loop_pass
  \/ worker_resume

SpecTimer ==
  /\ InitTimer /\ [][NextTimer]_vars
  /\ WF_vars(tick)
  /\ WF_vars(ReactorRun)
  /\ WF_vars(worker_resume)
  /\ \A t \in Sleepers : WF_vars(add_timer_wake(t))

\* C19: a timer is handed to spawn at most once and not before its expiry,
\* and every timer that was added is handed to spawn.
C19_TimerFiresOnce ==
  /\ [](\A t \in Tasks : spawned[t] <= 1)
  /\ [][\A t \in Tasks : spawned'[t] # spawned[t] => t \in timers_ /\ expiry[t] <= now]_vars
  /\ \A t \in Sleepers : (t \in timers_) ~> (spawned[t] = 1)

\* ---------------------------------------------------------------------
\* SpecStop: shutdown.  The main thread spawns up to MaxSpawn tasks and then
\* runs ~Scheduler; the reactor thread runs Reactor::loop (no timers, no
\* descriptors); the workers run Worker::run.  The test of
\* scheduler_.is_running() is taken together with the step of run_once that
\* follows it: nothing is pushed on the queue once stop_ is set, so the pop
\* sees the same queue on either side of the store.
StopKeep == UNCHANGED <<prog, schedVars, reactorVars, mutexVars, chanVars, stealVars, ebrVars,
                        handleVars, ioVars, localVars, coalesceVars, iterVars, pollVars, lockVars>>
StopRest == UNCHANGED <<platform, now, expiry, a_pc, r_pc, r_deadline, spawned>>

\* Reactor::stop: if (running_.exchange(false)).
Reactor_stop_exchange ==
  /\ d_pc = "run"
  /\ sp_pc[MainThread] = "idle" /\ u_pc[MainThread] = "idle"
  /\ running_' = FALSE
  /\ d_pc' = "stop_wake"
  /\ UNCHANGED <<stop_, d_i, sr_pc, wake_pending, parkVars, idleVars>>
  /\ StopKeep /\ StopRest

\* Reactor::stop: poller_.wake().
Reactor_stop_wake ==
  /\ d_pc = "stop_wake"
  /\ wake_pending' = TRUE
  /\ d_pc' = "join_reactor"
  /\ UNCHANGED <<stop_, running_, d_i, sr_pc, parkVars, idleVars>>
  /\ StopKeep /\ StopRest

\* Reactor::stop: thread_.join() returns; ~Scheduler: stop_.store(true).
Scheduler_dtor_store ==
  /\ d_pc = "join_reactor"
  /\ sr_pc = "exited"
  /\ stop_' = TRUE
  /\ d_pc' = "wake"
  /\ d_i' = 1
  /\ UNCHANGED <<running_, sr_pc, wake_pending, parkVars, idleVars>>
  /\ StopKeep /\ StopRest

\* ~Scheduler: for (auto& w : workers_) w->wake().
Scheduler_dtor_wake ==
  /\ d_pc = "wake"
  /\ u_pc[MainThread] = "idle"
  /\ IF d_i <= NumWorkers
     THEN /\ wake(MainThread, d_i)
          /\ d_i' = d_i + 1
          /\ UNCHANGED d_pc
     ELSE /\ d_pc' = "join"
          /\ UNCHANGED <<d_i, parkVars>>
  /\ UNCHANGED <<stop_, running_, sr_pc, wake_pending, idleVars>>
  /\ StopKeep /\ StopRest

\* ~Scheduler: every t.join() returns.
Scheduler_dtor_join ==
  /\ d_pc = "join"
  /\ \A w \in Workers : i_pc[w] = "exited"
  /\ d_pc' = "joined"
  /\ UNCHANGED <<stop_, running_, d_i, sr_pc, wake_pending, parkVars, idleVars>>
  /\ StopKeep /\ StopRest

\* A step inside the unpark that thread c has called.
Unpark(c) ==
  /\ UnparkRun(c)
  /\ UNCHANGED <<global_queue_, idleVars>>
  /\ IdleFrame

\* Reactor::loop: while (running_); without timers timeout_ms is -1.
Reactor_loop ==
  /\ sr_pc = "loop"
  /\ sr_pc' = IF running_ THEN "wait" ELSE "exited"
  /\ UNCHANGED <<stop_, running_, d_pc, d_i, wake_pending, parkVars, idleVars>>
  /\ StopKeep /\ StopRest

\* Poller::wait returns for a wake.  The kqueue Poller skips the event; the
\* epoll Poller calls the callback with wake_fd_ for a pointer, and
\* io_handler spawns Task::from_address of it: the push of Scheduler::spawn.
Reactor_wait ==
  /\ sr_pc = "wait"
  /\ wake_pending
  /\ wake_pending' = FALSE
  /\ sr_pc' = "pass"
  /\ IF platform = "epoll"
     THEN /\ global_queue_' = spawn(global_queue_, WakeFdPtr)
          /\ sp_pc' = [sp_pc EXCEPT ![ReactorThread] = "fetch_add"]
     ELSE UNCHANGED <<global_queue_, sp_pc>>
  /\ UNCHANGED <<stop_, running_, d_pc, d_i, parkVars, i_pc, i_task, next, resumed>>
  /\ UNCHANGED <<prog, ip, ph, done, frame, ref_count, is_running, destroyed, wpc, wtask,
                 crashed, reactorVars, mutexVars, chanVars, stealVars, ebrVars, handleVars,
                 ioVars, localVars, coalesceVars, iterVars, pollVars, lockVars>>
  /\ StopRest

\* Reactor::loop: the callback has returned; the timer pass finds no timer.
Reactor_pass ==
  /\ sr_pc = "pass"
  /\ sp_pc[ReactorThread] = "idle" /\ u_pc[ReactorThread] = "idle"
  /\ sr_pc' = "loop"
  /\ UNCHANGED <<stop_, running_, d_pc, d_i, wake_pending, parkVars, idleVars>>
  /\ StopKeep /\ StopRest

\* Worker::run: is_running() is false, the loop is left.
run_exit(w) ==
  /\ i_pc[w] = "find"
  /\ stop_
  /\ i_pc' = [i_pc EXCEPT ![w] = "exited"]
  /\ UNCHANGED <<global_queue_, parkVars, i_task, next, sp_pc, resumed>>
  /\ IdleFrame

\* Worker::run_once on the Task made of wake_fd_: task->resume() and then
\* ~Task go through a wild pointer.  The process dies, or the reads yield
\* something and run_once returns.
run_once_wild(w) ==
  /\ i_pc[w] = "resume"
  /\ i_task[w] = WakeFdPtr
  /\ crashed' \in BOOLEAN
  /\ i_task' = [i_task EXCEPT ![w] = NoTask]
  /\ i_pc' = [i_pc EXCEPT ![w] = "find"]
  /\ UNCHANGED <<global_queue_, parkVars, next, sp_pc, resumed>>
  /\ UNCHANGED <<prog, ip, ph, done, frame, ref_count, is_running, destroyed, wpc, wtask,
                 reactorVars, mutexVars, chanVars, stealVars, ebrVars, handleVars, ioVars,
                 timerVars, stopVars, localVars, coalesceVars, iterVars, pollVars, lockVars>>

\* The steps of worker w.
WorkerStop(w) ==
  \/ run_exit(w)
  \/ ~stop_ /\ run_once_pop(w)
  \/ ~stop_ /\ run_once_idle(w)
  \/ i_task[w] # WakeFdPtr /\ run_once_resume(w)
  \/ run_once_wild(w)
  \/ run_once_park(w)

\* The steps of the main thread.
MainStop ==
  \/ SpawnRun(MainThread) /\ d_pc = "run"
  \/ Unpark(MainThread) /\ d_pc # "run"
  \/ Reactor_stop_exchange
  \/ Reactor_stop_wake
  \/ Scheduler_dtor_store
  \/ Scheduler_dtor_wake
  \/ Scheduler_dtor_join

\* The steps of the reactor thread.
ReactorStop ==
  \/ Reactor_loop
  \/ Reactor_wait
  \/ SpawnRun(ReactorThread)
  \/ Reactor_pass

InitStop ==
  /\ prog = [t \in Tasks |-> <<>>]
  /\ capacity_ = 0
  /\ ip = [t \in Tasks |-> 0]
  /\ ph = [t \in Tasks |-> "wait"]
  /\ done = [t \in Tasks |-> FALSE]
  /\ frame = [t \in Tasks |-> "none"]
  /\ ref_count = [t \in Tasks |-> 0]
  /\ is_running = [t \in Tasks |-> FALSE]
  /\ destroyed = [t \in Tasks |-> 0]
  /\ global_queue_ = <<>>
  /\ wpc = [w \in Workers |-> "idle"]
  /\ wtask = [w \in Workers |-> NoTask]
  /\ crashed = FALSE
  /\ timers_ = {} /\ io_reg = {}
  /\ locked_ = FALSE /\ waiters_ = <<>> /\ guards = [t \in Tasks |-> <<>>]
  /\ counter = 0 /\ acquired = 0 /\ unlock_calls = 0 /\ enq_count = 0
  /\ ticket = [t \in Tasks |-> 0] /\ grant_count = 0 /\ last_grant = 0
  /\ closed_ = FALSE /\ buffer_ = <<>> /\ send_waiters_ = <<>> /\ recv_waiters_ = <<>>
  /\ send_result = [t \in Tasks |-> TRUE] /\ recv_result = [t \in Tasks |-> None]
  /\ rets = [t \in Tasks |-> <<>>] /\ closed_on = [t \in Tasks |-> 0]
  /\ StealInit /\ EbrInit /\ ParkInit /\ IdleInit /\ HandleInit /\ IoInit /\ StopInit /\ LocalInit /\ CoalesceInit /\ IterInit /\ PollInit /\ LockInit
  /\ platform \in {"epoll", "kqueue"}
  /\ now = 0
  /\ expiry = [t \in Tasks |-> 0]
  /\ a_pc = [t \in Tasks |-> "idle"]
  /\ r_pc = "timeout"
  /\ r_deadline = -1
  /\ wake_pending = FALSE
  /\ spawned = [t \in Tasks |-> 0]

NextStop ==
  /\ ~crashed
  /\ \/ d_pc = "run" /\ \E t \in 1..MaxSpawn : spawn_push(MainThread, t)
     \/ MainStop
     \/ ReactorStop
     \/ \E w \in Workers : WorkerStop(w)
     \/ \E w \in Workers : park_spurious(w) /\ UNCHANGED <<global_queue_, idleVars>> /\ IdleFrame

\* Every thread goes on running; every resume returns.
SpecStop ==
  /\ InitStop
  /\ [][NextStop]_vars
  /\ WF_vars(~crashed /\ MainStop)
  /\ WF_vars(~crashed /\ ReactorStop)
  /\ \A w \in Workers : WF_vars(~crashed /\ WorkerStop(w))

Registrations(t) ==
  (IF t \in timers_ THEN 1 ELSE 0)
    + (IF t \in io_reg THEN 1 ELSE 0)
    + Cardinality({i \in 1..Len(waiters_) : waiters_[i] = t})
    + Cardinality({i \in 1..Len(send_waiters_) : send_waiters_[i] = t})
    + Cardinality({i \in 1..Len(recv_waiters_) : recv_waiters_[i] = t})

\* C23: the ref_count of a live task is at least the number of places that
\* hold its handle: the Task objects (a worker's, the global queue's) and
\* the registrations, each of which carries a count of its own.
C23_CountCoversHolders ==
  \A t \in Tasks :
    frame[t] = "live" => ref_count[t] >= TaskObjects(t) + Registrations(t)

\* ---------------------------------------------------------------------
\* A wake-up of task t is on its way: the handle spawned for it is on the
\* global queue, or a worker has popped it and is in Task::resume before the
\* compare_exchange on is_running.
WakeupPending(t) ==
  \/ \E i \in 1..Len(global_queue_) : global_queue_[i] = t
  \/ \E w \in Workers : wtask[w] = t /\ wpc[w] \in {"check", "cas"}

\* Task t suspended in a socket awaiter, its registration has fired (the
\* io_handler handed it to spawn) and its body has not been resumed since.
WokenNotResumed(t) ==
  /\ Op(t) \in IoOps
  /\ ph[t] = "wait"
  /\ registered[t] # <<>>
  /\ t \notin io_reg

\* C24: no wake-up is dropped: while a task that its unblocker handed to
\* spawn has not been resumed, the wake-up is still on its way, also when
\* the spawn came before the suspending worker returned from Task::resume.
C24_NoWakeupDropped ==
  \A t \in Tasks : WokenNotResumed(t) => WakeupPending(t)

\* ---------------------------------------------------------------------
\* Every step on the AsyncMutex runs under wait_mtx_, so the states between
\* steps are those in which wait_mtx_ is released.

\* C25: when locked_ is false the waiter queue is empty; a caller whose
\* await_ready saw the mutex locked and whose await_suspend finds it free
\* takes the mutex and does not suspend or queue (a step that ends the
\* process aside).
C25_NoWaiterOnFreeMutex ==
  /\ [](~locked_ => waiters_ = <<>>)
  /\ [][\A t \in Tasks :
          (Op(t) = "lock" /\ ph[t] = "susp" /\ ~locked_ /\ ph'[t] # ph[t] /\ ~crashed')
             => /\ ph'[t] = "res"
                /\ locked_'
                /\ waiters_' = waiters_]_vars

\* unlock has released the mutex between the await_ready of a task, which
\* saw it locked, and its await_suspend.
C25_Witness ==
  \E t \in Tasks, w \in Workers :
    /\ Running(w, t)
    /\ Op(t) = "lock" /\ ph[t] = "susp"
    /\ ~locked_
    /\ unlock_calls > 0

\* ---------------------------------------------------------------------
\* The last element.  The owner is at its compare_exchange (o_pc = "pop_cas")
\* when pop found t == b: one element was left.  A thief is at its own
\* (s_pc = "steal_cas") with the t it read.

\* C26: when pop races with steals for the last element, at most one of them
\* returns it: the owner before its compare_exchange finds the element
\* returned by nobody (top unchanged) or by one thief (top moved), a pop that
\* won and a thief whose top is still current find it returned by nobody,
\* every return is the first of its element, and once all calls are over an
\* element returned by none of them is still in the deque.
C26_LastElement ==
  /\ [](o_pc = "pop_cas" =>
          /\ o_val \in 1..pushed
          /\ top = o_t => Returns(o_val) = 0
          /\ top # o_t => stolen[o_val] = 1 /\ popped[o_val] = 0)
  /\ [](o_pc = "pop_restore" /\ o_val # 0 => Returns(o_val) = 0)
  /\ [](\A w \in Workers :
          s_pc[w] = "steal_cas" /\ top = s_t[w] =>
             s_val[w] \in 1..pushed /\ Returns(s_val[w]) = 0)
  /\ [][\A e \in Elements :
          Returns(e)' # Returns(e) => Returns(e) = 0 /\ Returns(e)' = 1]_vars
  /\ []((o_pc = "idle" /\ \A w \in Workers : s_pc[w] = "idle") =>
          \A e \in 1..pushed : Returns(e) + InDeque(e) = 1)

\* One element is left; the owner and every thief are at their
\* compare_exchange on the same top.
C26_Witness ==
  /\ o_pc = "pop_cas"
  /\ top = o_t
  /\ \A w \in Workers : s_pc[w] = "steal_cas" /\ s_t[w] = o_t /\ s_val[w] = o_val

\* ---------------------------------------------------------------------
\* A pop is in progress from its store to bottom to its return.
PopInProgress == o_pc \in {"pop_top", "pop_get", "pop_cas", "pop_restore"}

\* C27: a pop that found the deque empty, lost the compare_exchange for the
\* last element or won it leaves bottom == top when it completes; it returns
\* empty only when every element pushed has been returned; top <= bottom
\* whenever no pop is in progress; and the pop that follows on the empty
\* deque finds it empty (it reads a top above its b).
C27_IndexRestored ==
  /\ [](~PopInProgress => top <= bottom)
  /\ [][(o_pc = "pop_restore" /\ o_pc' = "idle") =>
          /\ bottom' = top'
          /\ popped' = popped => \A e \in 1..pushed : Returns(e) = 1]_vars
  /\ [][(o_pc = "idle" /\ o_pc' = "pop_top" /\ top = bottom) => top' > o_b']_vars
  /\ [](o_pc = "idle" /\ top = bottom => \A e \in 1..pushed : Returns(e) = 1)

\* The owner has lost the compare_exchange for the last element to a thief
\* and is about to store b + 1 to bottom.
C27_Witness ==
  /\ o_pc = "pop_restore"
  /\ o_val = 0
  /\ o_t = o_b
  /\ top = o_t + 1
  /\ bottom = o_b
  /\ \E e \in Elements : stolen[e] = 1

\* ---------------------------------------------------------------------
\* Growth.  arrays holds every Array the deque ever had: array is the
\* current one, the earlier ones were handed to EbrManager::retire by push
\* and are not freed by anything else.  A deque would have to double 65
\* times before a retire of its owner reaches try_advance, so the retired
\* Arrays are readable here.

Others(t) == t % 2
\* The tasks that are scheduled on the deque, in this order.
Schedulable == {t \in Tasks : t <= 2}

LocalKeep == UNCHANGED <<prog, ip, ph, done, is_running, global_queue_, wpc, wtask, crashed,
                         reactorVars, mutexVars, chanVars, ebrVars, parkVars, idleVars,
                         handleVars, ioVars, timerVars, stopVars, coalesceVars, iterVars, pollVars, lockVars>>

\* Worker::schedule(Task t): the caller's Task is moved into the parameter
\* and from there into the parameter of push; no count changes.
Worker_schedule(t) ==
  /\ o_pc = "idle" /\ item = NoTask
  /\ pushed < MaxPush
  /\ t \in Schedulable
  /\ \A u \in Schedulable : u < t <=> \E e \in Elements : elem_task[e] = u
  /\ item' = t
  /\ elem_task' = [elem_task EXCEPT ![pushed + 1] = t]
  /\ UNCHANGED <<ref_count, frame, destroyed, dropped, stealVars>>
  /\ LocalKeep

\* push as it would be storing handle.address() without to_address.
push_put_task_uncounted ==
  /\ o_pc = "push_put"
  /\ arrays' = [arrays EXCEPT ![array] = put(@, o_b, pushed)]
  /\ o_pc' = "push_bottom"
  /\ UNCHANGED <<ref_count, frame, destroyed, localVars>>
  /\ UNCHANGED <<top, bottom, array, pushed, o_b, o_t, o_val, popped>>
  /\ OwnerFrame
  /\ LocalKeep

\* push: a->put(b, item.to_address()): the count goes up by one and the
\* address goes in the slot.
push_put_task ==
  /\ o_pc = "push_put"
  /\ arrays' = [arrays EXCEPT ![array] = put(@, o_b, pushed)]
  /\ ref_count' = [ref_count EXCEPT ![item] = @ + 1]
  /\ o_pc' = "push_bottom"
  /\ UNCHANGED <<frame, destroyed, localVars>>
  /\ UNCHANGED <<top, bottom, array, pushed, o_b, o_t, o_val, popped>>
  /\ OwnerFrame
  /\ LocalKeep

\* push returns: ~Task of the parameter.
push_return ==
  /\ o_pc = "idle" /\ item # NoTask
  /\ elem_task[pushed] = item
  /\ dec_ref(item)
  /\ item' = NoTask
  /\ UNCHANGED <<elem_task, dropped, stealVars>>
  /\ LocalKeep

\* The Task that pop or steal returned for element e goes out of scope.
Task_drop(e) ==
  /\ Returns(e) > dropped[e]
  /\ dec_ref(elem_task[e])
  /\ dropped' = [dropped EXCEPT ![e] = @ + 1]
  /\ UNCHANGED <<item, elem_task, stealVars>>
  /\ LocalKeep

InitLocal ==
  /\ prog = [t \in Tasks |-> <<>>]
  /\ capacity_ = 0
  /\ ip = [t \in Tasks |-> 0]
  /\ ph = [t \in Tasks |-> "wait"]
  /\ done = [t \in Tasks |-> FALSE]
  /\ frame = [t \in Tasks |-> "live"]
  /\ ref_count = [t \in Tasks |-> 1 + Others(t)]
  /\ is_running = [t \in Tasks |-> FALSE]
  /\ destroyed = [t \in Tasks |-> 0]
  /\ global_queue_ = <<>>
  /\ wpc = [w \in Workers |-> "idle"]
  /\ wtask = [w \in Workers |-> NoTask]
  /\ crashed = FALSE
  /\ timers_ = {} /\ io_reg = {}
  /\ locked_ = FALSE /\ waiters_ = <<>> /\ guards = [t \in Tasks |-> <<>>]
  /\ counter = 0 /\ acquired = 0 /\ unlock_calls = 0 /\ enq_count = 0
  /\ ticket = [t \in Tasks |-> 0] /\ grant_count = 0 /\ last_grant = 0
  /\ closed_ = FALSE /\ buffer_ = <<>> /\ send_waiters_ = <<>> /\ recv_waiters_ = <<>>
  /\ send_result = [t \in Tasks |-> TRUE] /\ recv_result = [t \in Tasks |-> None]
  /\ rets = [t \in Tasks |-> <<>>] /\ closed_on = [t \in Tasks |-> 0]
  /\ StealInit /\ EbrInit /\ ParkInit /\ IdleInit /\ HandleInit /\ IoInit /\ StopInit /\ LocalInit /\ CoalesceInit /\ IterInit /\ PollInit /\ LockInit
  /\ platform = "kqueue"
  /\ now = 0
  /\ expiry = [t \in Tasks |-> 0]
  /\ a_pc = [t \in Tasks |-> "idle"]
  /\ r_pc = "timeout"
  /\ r_deadline = -1
  /\ wake_pending = FALSE
  /\ spawned = [t \in Tasks |-> 0]

\* The owner is inside push from the move into its parameter to its return.
NextLocal ==
  \/ \E t \in Tasks : Worker_schedule(t)
  \/ push_load /\ item # NoTask /\ elem_task[pushed] # item
  \/ push_resize
  \/ push_put_task
  \/ push_bottom
  \/ push_return
  \/ pop_dec /\ item = NoTask
  \/ pop_top
  \/ pop_get
  \/ pop_cas
  \/ pop_restore
  \/ \E w \in Workers : steal_top(w)
  \/ \E w \in Workers : steal_bottom(w)
  \/ \E w \in Workers : steal_array(w)
  \/ \E w \in Workers : steal_get(w)
  \/ \E w \in Workers : steal_cas(w)
  \/ \E e \in Elements : Task_drop(e)

SpecLocal == InitLocal /\ [][NextLocal]_vars

\* Element e is in a slot: put there and not returned yet.
InSlot(e) ==
  IF /\ e <= pushed
     /\ ~(e = pushed /\ o_pc \in {"push_resize", "push_put"})
     /\ Returns(e) = 0
  THEN 1 ELSE 0
\* The Task objects a pop or steal returned for e that are still alive.
Held(e) == Returns(e) - dropped[e]
\* What the handles that went through the deque contribute to the count of t.
Scheduled(t) == \E e \in Elements : elem_task[e] = t
Through(t) ==
  (IF item = t THEN 1 ELSE 0)
    + (IF Scheduled(t)
       THEN LET e == CHOOSE x \in Elements : elem_task[x] = t IN InSlot(e) + Held(e)
       ELSE 0)

\* C29: the count of a task is that of the Task objects outside the deque
\* plus one for the parameter of push while push runs, one for the slot
\* while the element is in it and one for the Task a pop or steal returned;
\* pop and steal change no count and return one Task per element; once push
\* has returned and the element is taken the count is what it was before
\* push; the frame lives as long as any of these holds it.
C29_DequeNeutral ==
  /\ [](\A t \in Tasks :
          /\ ~Scheduled(t) => ref_count[t] = 1 + Others(t)
          /\ Scheduled(t) => ref_count[t] = Others(t) + Through(t)
          /\ (Others(t) + Through(t) > 0 \/ ~Scheduled(t)) => frame[t] = "live"
          /\ destroyed[t] <= 1)
  /\ [](\A e \in Elements :
          /\ Returns(e) <= 1
          /\ (Returns(e) = 1 /\ dropped[e] = 0 /\ item # elem_task[e]) =>
               ref_count[elem_task[e]] = 1 + Others(elem_task[e]))
  /\ [][\A e \in Elements : Returns(e)' # Returns(e) => ref_count' = ref_count]_vars

\* A thief holds the Task of an element it stole while push, which put it
\* there, has not returned yet: parameter and thief own the task.
C29_Witness ==
  \E e \in Elements :
    /\ stolen[e] = 1 /\ dropped[e] = 0
    /\ item = elem_task[e]
    /\ ref_count[item] = 2 + Others(item)

\* ---------------------------------------------------------------------
\* A node in a bin is written as the epoch that its retire read.

\* C30: retire places the node in the bin of the epoch that is current when
\* it is placed, and the deleter of a node runs only when the global epoch
\* is at least two above the epoch of its bin, also when a try_advance of
\* another thread falls between the read of the epoch and the push_back.
C30_BinOfRetireEpoch ==
  /\ [][\A w \in Workers :
          (e_pc[w] = "retire_push" /\ e_pc'[w] # "retire_push") => e_g[w] = global_epoch_]_vars
  /\ [][\A r \in Deleted : global_epoch_' >= r + 2]_vars

\* ---------------------------------------------------------------------
\* C31: the epoch that try_advance works with is the global epoch at the
\* time it holds the manager mutex, so over all interleavings of try_advance
\* calls the global epoch never decreases, every change of it is an increase
\* by exactly one, and the bins that are cleared are those with index
\* (new epoch + 1) mod 3, two epochs behind the new epoch.
C31_AtomicAdvance ==
  /\ [](\A w \in Workers : ebr_mtx = w => e_g[w] = global_epoch_)
  /\ [][global_epoch_' >= global_epoch_]_vars
  /\ [][global_epoch_' # global_epoch_ => global_epoch_' = global_epoch_ + 1]_vars
  /\ [][\A u \in Workers, i \in 1..NumBins :
          retire_bins'[u][i] \subseteq retire_bins[u][i] /\ retire_bins'[u][i] # retire_bins[u][i]
             => i = safe_bin_idx(global_epoch_) + 1]_vars

\* ---------------------------------------------------------------------
\* Thread u is inside a critical section at a local epoch that is not the
\* global epoch.
Lagging(u) == active[u] /\ epoch[u] # global_epoch_

\* C32: try_advance stores a new epoch only when no registered thread is
\* lagging at that moment, and gives up only for a thread that is lagging
\* at that moment: a thread outside a critical section never makes it
\* give up, a thread inside one entered at an older epoch always does.
C32_AdvanceCondition ==
  /\ [][\A w \in Workers :
          (e_pc[w] = "advance_store" /\ e_pc'[w] = "advance_clean")
             => \A u \in Workers : ~Lagging(u) /\ ~(active[u] /\ entered_at[u] < global_epoch_)]_vars
  /\ [][\A w \in Workers :
          (e_pc[w] = "advance_epoch" /\ e_pc'[w] = "idle") => Lagging(e_idx[w])]_vars

\* ---------------------------------------------------------------------
\* SpecCoalesce: the Parker of worker 1 as in SpecParker, with the unparks
\* counted: issued[w] goes up with every exchange of an unpark and back to 0
\* when a park returns; at_call[w] keeps the count a park started with.
MaxIssued == 2

CoalesceFrame ==
  UNCHANGED <<prog, schedVars, reactorVars, mutexVars, chanVars,
              stealVars, ebrVars, idleVars, handleVars, ioVars, timerVars, stopVars, localVars, iterVars, pollVars, lockVars>>

\* parker_.park() is called.
Parker_park(w) ==
  /\ park(w)
  /\ at_call' = [at_call EXCEPT ![w] = issued[w]]
  /\ UNCHANGED issued

\* A step of park(), the return included.
Parker_park_step(w) ==
  /\ ParkRun(w)
  /\ issued' = [issued EXCEPT ![w] = IF p_pc'[w] = "out" THEN 0 ELSE @]
  /\ UNCHANGED at_call

\* std::atomic::wait returns spuriously.
Parker_spurious(w) ==
  /\ park_spurious(w)
  /\ UNCHANGED coalesceVars

\* Worker::wake: unpark() is called.
Parker_unpark(c, w) ==
  /\ wake(c, w)
  /\ UNCHANGED coalesceVars

\* A step of unpark(); the exchange is the moment the unpark is issued.
Parker_unpark_step(c) ==
  /\ UnparkRun(c)
  /\ issued' = IF u_pc[c] = "exchange"
               THEN [issued EXCEPT ![u_w[c]] = IF @ < MaxIssued THEN @ + 1 ELSE @]
               ELSE issued
  /\ UNCHANGED at_call

NextCoalesce ==
  \/ Parker_park(1) /\ CoalesceFrame
  \/ Parker_park_step(1) /\ CoalesceFrame
  \/ Parker_spurious(1) /\ CoalesceFrame
  \/ \E c \in Threads \ {1} : Parker_unpark(c, 1) /\ CoalesceFrame
  \/ \E c \in Threads \ {1} : Parker_unpark_step(c) /\ CoalesceFrame

\* As in SpecParker: a thread inside park or unpark goes on running.
SpecCoalesce ==
  /\ InitParker
  /\ [][NextCoalesce]_vars
  /\ WF_vars(Parker_park_step(1) /\ CoalesceFrame)
  /\ \A c \in Threads \ {1} : WF_vars(Parker_unpark_step(c) /\ CoalesceFrame)

\* The park of worker w that is in progress found the state EMPTY.
FoundEmpty(w) == p_pc[w] \in {"park_load", "park_wait", "park_blocked"}

\* C33: however many unparks were issued while no park was in progress,
\* the state holds one notification: the park called next never blocks and
\* returns, every park leaves the state EMPTY on return, a park called
\* with no unpark pending returns only after an unpark was issued, and a
\* park that found the state EMPTY leaves its loop only after an unpark
\* has set the state to NOTIFIED.
C33_Coalescing ==
  /\ [](\A w \in Workers : p_pc[w] \in {"out", "park_cas"}
          => state[w] = (IF issued[w] = 0 THEN EMPTY ELSE NOTIFIED))
  /\ [](\A w \in Workers : p_pc[w] # "out" /\ at_call[w] >= 1 => ~FoundEmpty(w))
  /\ \A w \in Workers : (p_pc[w] # "out" /\ at_call[w] >= 1) ~> (p_pc[w] = "out")
  /\ [][\A w \in Workers : p_pc[w] # "out" /\ p_pc'[w] = "out"
          => state'[w] = EMPTY /\ (at_call[w] = 0 => issued[w] >= 1)]_vars
  /\ [][\A w \in Workers : FoundEmpty(w) /\ ~FoundEmpty(w)'
          => state[w] = NOTIFIED /\ issued[w] >= 1]_vars

\* A park that was called after two unparks has returned, the state is
\* EMPTY and no unpark is pending.
C33_Witness ==
  /\ p_pc[1] = "out" /\ at_call[1] >= 2
  /\ state[1] = EMPTY /\ issued[1] = 0

\* ---------------------------------------------------------------------
\* SpecSpawn: Scheduler::spawn on its own.  The spawners of SpecIdle spawn
\* tasks, one more than there are workers at least, and empty Task objects;
\* the workers run as in SpecIdle.

\* Scheduler::spawn of an empty Task: t.detach() returns nullptr and the
\* body of the if is skipped.
spawn_detach_empty(c) ==
  /\ sp_pc[c] = "idle" /\ u_pc[c] = "idle"
  /\ sp_pc' = [sp_pc EXCEPT ![c] = "empty"]
  /\ UNCHANGED <<global_queue_, parkVars, i_pc, i_task, next, resumed>>
  /\ IdleFrame

\* Scheduler::spawn of an empty Task returns.
spawn_return_empty(c) ==
  /\ sp_pc[c] = "empty"
  /\ sp_pc' = [sp_pc EXCEPT ![c] = "idle"]
  /\ UNCHANGED <<global_queue_, parkVars, i_pc, i_task, next, resumed>>
  /\ IdleFrame

NextSpawn ==
  \/ \E c \in Spawners : \E t \in 1..(MaxSpawn + 1) : spawn_push(c, t)
  \/ \E c \in Spawners : SpawnRun(c)
  \/ \E c \in Spawners : spawn_detach_empty(c) \/ spawn_return_empty(c)
  \/ \E w \in Workers : WorkerRun(w)

SpecSpawn == InitIdle /\ [][NextSpawn]_vars

\* C34: a spawn of a task appends the task to the global queue first and
\* calls wake after that, once: the number of wakes chosen plus the spawns
\* between push and wake is the number of tasks pushed; the wake of the
\* spawn that finds the counter at k goes to worker k mod n (worker
\* (k mod n) + 1 here, the workers being numbered from 1); the spawn of
\* an empty task changes neither the queue nor the counter nor any Parker.
C34_SpawnPushesThenWakes ==
  /\ [](Cardinality(Pushed) = next + Cardinality({c \in Threads : sp_pc[c] = "fetch_add"}))
  /\ [][\A c \in Threads : sp_pc[c] = "idle" /\ sp_pc'[c] = "fetch_add"
          => /\ Len(global_queue_') = Len(global_queue_) + 1
             /\ global_queue_'[Len(global_queue_')] \notin Pushed
             /\ UNCHANGED <<next, parkVars>>]_vars
  /\ [][\A c \in Threads : sp_pc[c] = "fetch_add" /\ sp_pc'[c] # "fetch_add"
          => /\ u_pc[c] = "idle" /\ u_pc'[c] = "exchange"
             /\ u_w'[c] = (next % NumWorkers) + 1
             /\ next' = next + 1]_vars
  /\ [][\A c \in Threads : u_pc[c] = "idle" /\ u_pc'[c] # "idle"
          => sp_pc[c] = "fetch_add" /\ sp_pc'[c] = "idle"]_vars
  /\ [][\A c \in Threads : sp_pc'[c] # sp_pc[c] /\ "empty" \in {sp_pc[c], sp_pc'[c]}
          => UNCHANGED <<global_queue_, next, parkVars>>]_vars

\* The spawn after as many spawns as there are workers wakes the first
\* worker again; an empty task is being spawned meanwhile.
C34_Witness ==
  /\ next = NumWorkers + 1
  /\ \E c \in Spawners : u_pc[c] = "exchange" /\ u_w[c] = 1
  /\ \E c \in Spawners : sp_pc[c] = "empty"

\* ---------------------------------------------------------------------
\* SpecIter: Worker::run_once, call by call.  Worker 1 is followed; its
\* deque, the deques of the other workers and the global queue are filled
\* and emptied by the other threads as they like.  A pop or steal is one
\* step here (StealQueue itself is followed in SpecSteal), and trail[w]
\* notes each call of the iteration with the task it returned.
SpinTries == 50

IterFrame ==
  UNCHANGED <<prog, ip, ph, done, frame, ref_count, is_running, destroyed, wpc, wtask,
              crashed, reactorVars, mutexVars, chanVars, stealVars, ebrVars, handleVars, ioVars, timerVars, stopVars, localVars, coalesceVars, idleVars, pollVars, lockVars>>

\* trail[w] with one more call noted.
Noted(w, call, t) == [trail EXCEPT ![w] = Append(@, <<call, t>>)]

\* run_once: local_queue_->pop(), which takes the newest element.
Worker_pop_local(w) ==
  /\ ro_pc[w] = "local"
  /\ IF local_queue_[w] # <<>>
     THEN LET q == local_queue_[w] IN
          /\ ro_task' = [ro_task EXCEPT ![w] = q[Len(q)]]
          /\ local_queue_' = [local_queue_ EXCEPT ![w] = SubSeq(q, 1, Len(q) - 1)]
          /\ trail' = Noted(w, "local", q[Len(q)])
          /\ ro_pc' = [ro_pc EXCEPT ![w] = "resume"]
     ELSE /\ trail' = Noted(w, "local", NoTask)
          /\ ro_pc' = [ro_pc EXCEPT ![w] = "global"]
          /\ UNCHANGED <<ro_task, local_queue_>>
  /\ UNCHANGED <<global_queue_, parkVars, ro_i, st_start, st_i, placed>>
  /\ IterFrame

\* run_once: scheduler_.pop_global() of the first block.
Worker_pop_global(w) ==
  /\ ro_pc[w] = "global"
  /\ IF global_queue_ # <<>>
     THEN /\ ro_task' = [ro_task EXCEPT ![w] = Head(global_queue_)]
          /\ global_queue_' = Tail(global_queue_)
          /\ trail' = Noted(w, "global", Head(global_queue_))
          /\ ro_pc' = [ro_pc EXCEPT ![w] = "resume"]
     ELSE /\ trail' = Noted(w, "global", NoTask)
          /\ ro_pc' = [ro_pc EXCEPT ![w] = "steal"]
          /\ UNCHANGED <<ro_task, global_queue_>>
  /\ UNCHANGED <<parkVars, ro_i, st_start, st_i, local_queue_, placed>>
  /\ IterFrame

\* Scheduler::steal: with one worker there is nothing to scan; otherwise
\* the scan starts at a random worker.
Scheduler_steal_start(w) ==
  /\ ro_pc[w] = "steal"
  /\ IF NumWorkers <= 1
     THEN /\ trail' = Noted(w, "steal", NoTask)
          /\ ro_pc' = [ro_pc EXCEPT ![w] = "spin"]
          /\ ro_i' = [ro_i EXCEPT ![w] = 0]
          /\ UNCHANGED <<st_start, st_i>>
     ELSE /\ \E start \in 0..(NumWorkers - 1) : st_start' = [st_start EXCEPT ![w] = start]
          /\ st_i' = [st_i EXCEPT ![w] = 0]
          /\ ro_pc' = [ro_pc EXCEPT ![w] = "scan"]
          /\ UNCHANGED <<trail, ro_i>>
  /\ UNCHANGED <<global_queue_, parkVars, ro_task, local_queue_, placed>>
  /\ IterFrame

\* Scheduler::steal: workers_[(start + i) % n]->steal().  The steal takes
\* the oldest element of the victim; it can also return nothing from a
\* deque that is not empty (it lost the element to another thread).
Scheduler_steal_victim(w) ==
  /\ ro_pc[w] = "scan"
  /\ LET v == ((st_start[w] + st_i[w]) % NumWorkers) + 1 IN
     \/ /\ local_queue_[v] # <<>>
        /\ ro_task' = [ro_task EXCEPT ![w] = Head(local_queue_[v])]
        /\ local_queue_' = [local_queue_ EXCEPT ![v] = Tail(@)]
        /\ trail' = Noted(w, "steal", Head(local_queue_[v]))
        /\ ro_pc' = [ro_pc EXCEPT ![w] = "resume"]
        /\ UNCHANGED <<st_i, ro_i>>
     \/ /\ st_i' = [st_i EXCEPT ![w] = @ + 1]
        /\ IF st_i[w] + 1 < NumWorkers
           THEN UNCHANGED <<trail, ro_pc, ro_i>>
           ELSE /\ trail' = Noted(w, "steal", NoTask)
                /\ ro_pc' = [ro_pc EXCEPT ![w] = "spin"]
                /\ ro_i' = [ro_i EXCEPT ![w] = 0]
        /\ UNCHANGED <<ro_task, local_queue_>>
  /\ UNCHANGED <<global_queue_, parkVars, st_start, placed>>
  /\ IterFrame

\* run_once: task->resume() (t->resume() in the spin loop).
Worker_resume(w) ==
  /\ ro_pc[w] = "resume"
  /\ trail' = Noted(w, "resume", ro_task[w])
  /\ ro_pc' = [ro_pc EXCEPT ![w] = "return"]
  /\ UNCHANGED <<global_queue_, parkVars, ro_task, ro_i, st_start, st_i, local_queue_, placed>>
  /\ IterFrame

\* The spin loop with a single try.
Worker_spin_once(w) ==
  /\ ro_pc[w] = "spin"
  /\ IF global_queue_ # <<>>
     THEN /\ ro_task' = [ro_task EXCEPT ![w] = Head(global_queue_)]
          /\ global_queue_' = Tail(global_queue_)
          /\ trail' = Noted(w, "global", Head(global_queue_))
          /\ ro_pc' = [ro_pc EXCEPT ![w] = "resume"]
          /\ UNCHANGED ro_i
     ELSE /\ trail' = Noted(w, "global", NoTask)
          /\ ro_i' = [ro_i EXCEPT ![w] = @ + 1]
          /\ ro_pc' = [ro_pc EXCEPT ![w] = "park"]
          /\ UNCHANGED <<ro_task, global_queue_>>
  /\ UNCHANGED <<parkVars, st_start, st_i, local_queue_, placed>>
  /\ IterFrame

\* run_once: for (int i = 0; i < 50; ++i) scheduler_.pop_global().
Worker_spin_pop(w) ==
  /\ ro_pc[w] = "spin"
  /\ IF global_queue_ # <<>>
     THEN /\ ro_task' = [ro_task EXCEPT ![w] = Head(global_queue_)]
          /\ global_queue_' = Tail(global_queue_)
          /\ trail' = Noted(w, "global", Head(global_queue_))
          /\ ro_pc' = [ro_pc EXCEPT ![w] = "resume"]
          /\ UNCHANGED ro_i
     ELSE /\ trail' = Noted(w, "global", NoTask)
          /\ ro_i' = [ro_i EXCEPT ![w] = @ + 1]
          /\ ro_pc' = [ro_pc EXCEPT ![w] = IF ro_i[w] + 1 < SpinTries THEN "spin" ELSE "park"]
          /\ UNCHANGED <<ro_task, global_queue_>>
  /\ UNCHANGED <<parkVars, st_start, st_i, local_queue_, placed>>
  /\ IterFrame

\* run_once: parker_.park() is called.
Worker_park(w) ==
  /\ ro_pc[w] = "park"
  /\ park(w)
  /\ trail' = Noted(w, "park", NoTask)
  /\ ro_pc' = [ro_pc EXCEPT ![w] = "parking"]
  /\ UNCHANGED <<global_queue_, ro_task, ro_i, st_start, st_i, local_queue_, placed>>
  /\ IterFrame

\* run_once: a step inside parker_.park().
Worker_park_step(w) ==
  /\ ro_pc[w] = "parking"
  /\ ParkRun(w) \/ park_spurious(w)
  /\ ro_pc' = [ro_pc EXCEPT ![w] = IF p_pc'[w] = "out" THEN "return" ELSE @]
  /\ UNCHANGED <<global_queue_, ro_task, ro_i, st_start, st_i, trail, local_queue_, placed>>
  /\ IterFrame

\* run_once returns (its Task is destroyed) and Worker::run calls it again.
Worker_run_again(w) ==
  /\ ro_pc[w] = "return"
  /\ ro_pc' = [ro_pc EXCEPT ![w] = "local"]
  /\ ro_task' = [ro_task EXCEPT ![w] = NoTask]
  /\ ro_i' = [ro_i EXCEPT ![w] = 0]
  /\ trail' = [trail EXCEPT ![w] = <<>>]
  /\ UNCHANGED <<global_queue_, parkVars, st_start, st_i, local_queue_, placed>>
  /\ IterFrame

\* Another thread spawns a task.
Other_spawn ==
  /\ placed < MaxSpawn
  /\ placed' = placed + 1
  /\ global_queue_' = spawn(global_queue_, placed + 1)
  /\ UNCHANGED <<parkVars, ro_pc, ro_task, ro_i, st_start, st_i, trail, local_queue_>>
  /\ IterFrame

\* A task is put on the deque of worker v by its owner thread: on the
\* deque of the worker that is followed only between two iterations.
Other_schedule(v) ==
  /\ placed < MaxSpawn
  /\ v = 1 => ro_pc[v] = "local"
  /\ placed' = placed + 1
  /\ local_queue_' = [local_queue_ EXCEPT ![v] = Append(@, placed + 1)]
  /\ UNCHANGED <<global_queue_, parkVars, ro_pc, ro_task, ro_i, st_start, st_i, trail>>
  /\ IterFrame

\* Another worker takes a task from the global queue or from a deque.
Other_take ==
  /\ \/ /\ global_queue_ # <<>>
        /\ global_queue_' = Tail(global_queue_)
        /\ UNCHANGED local_queue_
     \/ /\ \E v \in Workers : /\ local_queue_[v] # <<>>
                              /\ local_queue_' = [local_queue_ EXCEPT ![v] = Tail(@)]
        /\ UNCHANGED global_queue_
  /\ UNCHANGED <<parkVars, ro_pc, ro_task, ro_i, st_start, st_i, trail, placed>>
  /\ IterFrame

\* Another thread wakes the worker that is followed.
Other_wake(c) ==
  /\ wake(c, 1) \/ UnparkRun(c)
  /\ UNCHANGED <<global_queue_, iterVars, pollVars, lockVars>>
  /\ IterFrame

NextIter ==
  \/ Worker_pop_local(1)
  \/ Worker_pop_global(1)
  \/ Scheduler_steal_start(1)
  \/ Scheduler_steal_victim(1)
  \/ Worker_resume(1)
  \/ Worker_spin_pop(1)
  \/ Worker_park(1)
  \/ Worker_park_step(1)
  \/ Worker_run_again(1)
  \/ Other_spawn
  \/ \E v \in Workers : Other_schedule(v)
  \/ Other_take
  \/ Other_wake(MainThread)

SpecIter == InitIdle /\ [][NextIter]_vars

\* The calls of an iteration that finds nothing, in order.
Plan == <<"local", "global", "steal">> \o [i \in 1..SpinTries |-> "global"]

\* C35: the calls of one run_once follow the plan (local pop, global pop,
\* steal scan, then the global pops of the spin loop) and go on only as
\* long as every call so far returned nothing; park is called only after
\* all of them returned nothing; a call that returned a task is followed
\* by one resume of that task and by nothing else; run_once returns after
\* a resume or after park, never otherwise.
C35_WorkerIteration ==
  /\ [](\A w \in Workers : \A i \in 1..Len(trail[w]) :
          LET tr == trail[w] IN
          CASE tr[i][1] = "park" ->
                 i = Len(Plan) + 1 /\ \A j \in 1..(i - 1) : tr[j][2] = NoTask
            [] tr[i][1] = "resume" ->
                 /\ i = Len(tr) /\ i > 1
                 /\ tr[i - 1][1] \notin {"resume", "park"}
                 /\ tr[i][2] # NoTask /\ tr[i][2] = tr[i - 1][2]
            [] OTHER ->
                 /\ i <= Len(Plan) /\ tr[i][1] = Plan[i]
                 /\ \A j \in 1..(i - 1) : tr[j][2] = NoTask)
  /\ [][\A w \in Workers : ro_pc[w] = "return" /\ ro_pc'[w] # "return"
          => /\ trail[w] # <<>>
             /\ trail[w][Len(trail[w])][1] \in {"resume", "park"}
             /\ \A i \in 1..Len(trail[w]) :
                  (trail[w][i][1] \notin {"resume", "park"} /\ trail[w][i][2] # NoTask)
                     => trail[w][Len(trail[w])] = <<"resume", trail[w][i][2]>>]_vars

\* The worker is blocked in park after a full round of calls that returned
\* nothing, and a task has been spawned since.
C35_Witness ==
  /\ p_pc[1] = "park_blocked"
  /\ Len(trail[1]) = Len(Plan) + 1
  /\ global_queue_ # <<>>

\* C36: a Poller::wake is followed by a return of poller_.wait, and the
\* event of the wake is never handed to the I/O callback: what the reactor
\* spawns is never the value registered for wake_fd_.
C36_SelfWakeSkipped ==
  /\ wake_pending ~> ~wake_pending
  /\ [](\A i \in 1..Len(global_queue_) : global_queue_[i] # WakeFdPtr)
  /\ [][wake_pending /\ ~wake_pending' => global_queue_' = global_queue_]_vars

\* ---------------------------------------------------------------------
\* SpecPoller: the registrations of the Poller.  Threads register handles
\* for reading or writing on NumFds descriptors, up to MaxReg times; the
\* reactor thread waits and calls io_handler for each event, which spawns
\* the handle; which descriptors are ready when it waits is open.
NumFds == 2
MaxReg == 3
Fds == 1..NumFds
Kinds == {"read", "write"}
\* The tasks whose handles are registered.
Awaiting == {t \in Tasks : t <= 2}

PollFrame ==
  UNCHANGED <<prog, ip, ph, done, frame, ref_count, is_running, destroyed, wpc, wtask,
              crashed, reactorVars, mutexVars, chanVars, stealVars, ebrVars, handleVars, ioVars, timerVars, stopVars, localVars, coalesceVars, iterVars, parkVars, idleVars, lockVars>>

\* The registrations that a new one for fd and kind displaces: epoll keeps
\* one entry per descriptor (EPOLL_CTL_ADD fails with EEXIST and
\* EPOLL_CTL_MOD overwrites events and data), kqueue one per descriptor and
\* filter (EV_ADD overwrites udata).
Displaced(fd, kind) ==
  {r \in interest : r.fd = fd /\ (platform = "kqueue" => r.kind = kind)}

\* Poller::add_read / add_write (Reactor::register_read / register_write).
\* The tasks of Awaiting register in turn.
Poller_add(fd, kind, h) ==
  /\ Len(regs) < MaxReg
  /\ h = (Len(regs) % Cardinality(Awaiting)) + 1
  /\ regs' = Append(regs, [fd |-> fd, kind |-> kind, udata |-> h])
  /\ calls' = Append(calls, <<>>)
  /\ interest' = (interest \ Displaced(fd, kind))
                   \cup {[fd |-> fd, kind |-> kind, udata |-> h, armed |-> TRUE,
                          reg |-> Len(regs) + 1]}
  /\ UNCHANGED <<global_queue_, events_>>
  /\ PollFrame

\* The armed registrations: those for which the kernel reports an event
\* once the descriptor is ready for their kind.
Armed == {r \in interest : r.armed}
\* The orders in which the events of the set E can be returned.
Orders(E) == {q \in [1..Cardinality(E) -> E] : \A r \in E : \E i \in 1..Cardinality(E) : q[i] = r}

\* Poller::wait without one-shot registrations.
Poller_wait_level ==
  /\ events_ = <<>>
  /\ \E Fired \in (SUBSET Armed) \ {{}} : \E q \in Orders(Fired) : events_' = q
  /\ UNCHANGED <<global_queue_, interest, regs, calls>>
  /\ PollFrame

\* Poller::wait: epoll_wait / kevent returns the events of the armed
\* registrations whose descriptors are ready, Fired.  EPOLLONESHOT
\* disarms each of them (the entry stays), EV_ONESHOT deletes it.
Poller_wait ==
  /\ events_ = <<>>
  /\ \E Fired \in (SUBSET Armed) \ {{}} :
       /\ \E q \in Orders(Fired) : events_' = q
       /\ interest' = IF platform = "epoll"
                      THEN (interest \ Fired) \cup {[r EXCEPT !.armed = FALSE] : r \in Fired}
                      ELSE interest \ Fired
  /\ UNCHANGED <<global_queue_, regs, calls>>
  /\ PollFrame

\* Poller::wait: callback(events_[i].data.ptr); io_handler spawns
\* Task::from_address(udata).
Poller_callback ==
  /\ events_ # <<>>
  /\ LET ev == Head(events_) IN
     /\ global_queue_' = spawn(global_queue_, ev.udata)
     /\ calls' = [calls EXCEPT ![ev.reg] = Append(@, ev.udata)]
  /\ events_' = Tail(events_)
  /\ UNCHANGED <<interest, regs>>
  /\ PollFrame

NextPoller ==
  \/ \E fd \in Fds, kind \in Kinds, h \in Awaiting : Poller_add(fd, kind, h)
  \/ Poller_wait
  \/ Poller_callback

SpecPoller == InitStop /\ [][NextPoller]_vars

\* The latest registration made for fd (and kind, with kqueue).
Latest(fd, kind) ==
  LET S == {n \in 1..Len(regs) : regs[n].fd = fd /\ (platform = "kqueue" => regs[n].kind = kind)}
  IN CHOOSE n \in S : \A k \in S : k <= n

\* C37: the callback is called at most once for each registration, with the
\* handle that was registered, and each call is one spawn; a registration
\* for a descriptor the poller knows takes the place of the entry it has
\* (per descriptor with epoll, per descriptor and filter with kqueue) and is
\* armed, so what the poller holds for a descriptor is always the latest
\* registration, and the events of a wait are events of registrations
\* that were armed, which the wait disarms.
C37_OneShotRearm ==
  /\ [](\A n \in 1..Len(regs) :
          /\ Len(calls[n]) <= 1
          /\ calls[n] # <<>> => calls[n][1] = regs[n].udata)
  /\ [](Len(global_queue_) = Cardinality({n \in 1..Len(regs) : calls[n] # <<>>}))
  /\ [](\A r \in interest :
          /\ r.reg = Latest(r.fd, r.kind)
          /\ r.udata = regs[r.reg].udata /\ r.kind = regs[r.reg].kind
          /\ \A r2 \in interest : (r2.fd = r.fd /\ r2.kind = r.kind) => r2 = r)
  /\ [][Len(regs') > Len(regs)
          => LET n == Len(regs') IN
             \E r \in interest' :
                /\ r.reg = n /\ r.armed /\ r.fd = regs'[n].fd
                /\ interest' \ {r} = interest \ Displaced(r.fd, r.kind)]_vars
  /\ [][events_ = <<>> /\ events_' # <<>>
          => \A i \in 1..Len(events_') :
                /\ events_'[i] \in Armed
                /\ \A r \in interest' : r.reg = events_'[i].reg => ~r.armed]_vars

\* Keep-alive with epoll: a handle was registered for reading on a
\* descriptor and called back, another handle was registered for reading on
\* the same descriptor and called back, and the first again.
C37_Witness ==
  /\ platform = "epoll"
  /\ Len(regs) >= 3
  /\ \A n \in 1..3 : regs[n].fd = regs[1].fd /\ regs[n].kind = "read" /\ calls[n] = <<regs[n].udata>>
  /\ regs[1].udata = regs[3].udata /\ regs[1].udata # regs[2].udata

\* ---------------------------------------------------------------------
\* SpecLocks: the std::mutex objects of the runtime and the order in which
\* the operations of the runtime lock and unlock them.  "queue" is
\* GlobalQueue::mtx_, "wait" AsyncMutex::wait_mtx_, "chan" Channel::mtx_,
\* "timer" Reactor::mtx_, "ebr" EbrManager::mtx_.  The workers and the
\* reactor thread start operations as they like; a lock_guard blocks while
\* another thread holds the mutex.
Mutexes == {"queue", "wait", "chan", "timer", "ebr"}

\* m locked and unlocked with nothing in between but what is in the middle.
Guarded(m, middle) == <<<<"lock", m>>>> \o middle \o <<<<"unlock", m>>>>
\* Scheduler::spawn: GlobalQueue::push under its lock_guard (Worker::wake
\* after it takes no mutex).
SpawnSteps == Guarded("queue", <<>>)

\* An operation with the queue mutex taken first.
StepsQueueOutside(o) ==
  CASE o = "unlock_pass" -> Guarded("queue", Guarded("wait", <<>>))
    [] o = "timer_pass" -> Guarded("queue", Guarded("timer", <<>>))
    [] o = "chan_wake" -> Guarded("queue", Guarded("chan", <<>>))
    [] OTHER -> Guarded("queue", <<>>)

\* The lock and unlock steps of the operations, in program order.
Steps(o) ==
  CASE o = "spawn" -> SpawnSteps
    [] o = "pop_global" -> Guarded("queue", <<>>)
    [] o = "await_ready" -> Guarded("wait", <<>>)
    [] o = "await_suspend" -> Guarded("wait", <<>>)
    [] o = "unlock_free" -> Guarded("wait", <<>>)
    [] o = "unlock_pass" -> Guarded("wait", SpawnSteps)
    [] o = "chan_op" -> Guarded("chan", <<>>)
    [] o = "chan_wake" -> Guarded("chan", SpawnSteps)
    [] o = "chan_close" -> Guarded("chan", SpawnSteps \o SpawnSteps)
    [] o = "add_timer" -> Guarded("timer", <<>>)
    [] o = "loop_timeout" -> Guarded("timer", <<>>)
    [] o = "timer_pass" -> Guarded("timer", SpawnSteps)
    [] o = "try_advance" -> Guarded("ebr", <<>>)
    [] OTHER -> <<>>

\* What a worker thread runs: run_once, the awaiters and operations of the
\* task it resumes, the destructors of a frame it destroys.
WorkerOps == {"spawn", "pop_global", "await_ready", "await_suspend", "unlock_free",
              "unlock_pass", "chan_op", "chan_wake", "chan_close", "add_timer", "try_advance"}
\* What the reactor thread runs: Reactor::loop with io_handler.
ReactorOps == {"spawn", "loop_timeout", "timer_pass"}
LockThreads == Workers \cup {ReactorThread}

LockFrame ==
  UNCHANGED <<global_queue_, prog, ip, ph, done, frame, ref_count, is_running, destroyed, wpc, wtask,
              crashed, reactorVars, mutexVars, chanVars, stealVars, ebrVars, handleVars, ioVars, timerVars, stopVars, localVars, coalesceVars, iterVars, pollVars, parkVars, idleVars>>

\* Thread c starts operation o.
Begin(c, o) ==
  /\ op[c] = "none"
  /\ o \in (IF c = ReactorThread THEN ReactorOps ELSE WorkerOps)
  /\ op' = [op EXCEPT ![c] = o]
  /\ op_i' = [op_i EXCEPT ![c] = 0]
  /\ UNCHANGED owner
  /\ LockFrame

\* The step thread c does next, <<>> if it is in no operation.
NextStep(c) == IF op[c] = "none" THEN <<>> ELSE Steps(op[c])[op_i[c] + 1]

\* std::lock_guard constructor: thread c gets the mutex when it is free.
Lock(c) ==
  /\ op[c] # "none"
  /\ NextStep(c)[1] = "lock"
  /\ owner[NextStep(c)[2]] = 0
  /\ owner' = [owner EXCEPT ![NextStep(c)[2]] = c]
  /\ op_i' = [op_i EXCEPT ![c] = @ + 1]
  /\ UNCHANGED op
  /\ LockFrame

\* std::lock_guard destructor; after the last one the operation returns.
Unlock(c) ==
  /\ op[c] # "none"
  /\ NextStep(c)[1] = "unlock"
  /\ owner' = [owner EXCEPT ![NextStep(c)[2]] = 0]
  /\ IF op_i[c] + 1 = Len(Steps(op[c]))
     THEN op' = [op EXCEPT ![c] = "none"] /\ op_i' = [op_i EXCEPT ![c] = 0]
     ELSE op_i' = [op_i EXCEPT ![c] = @ + 1] /\ UNCHANGED op
  /\ LockFrame

NextLocks ==
  \/ \E c \in LockThreads : \E o \in WorkerOps \cup ReactorOps : Begin(c, o)
  \/ \E c \in LockThreads : Lock(c)
  \/ \E c \in LockThreads : Unlock(c)

SpecLocks == InitIdle /\ [][NextLocks]_vars

\* The mutexes thread c holds.
HeldBy(c) == {m \in Mutexes : owner[m] = c}
\* Thread c is blocked: its next step locks a mutex that another holds.
BlockedOn(c, m) == NextStep(c) = <<"lock", m>> /\ owner[m] # 0
\* Thread c waits for a mutex that d holds.
WaitsFor(c, d) == \E m \in Mutexes : BlockedOn(c, m) /\ owner[m] = d
\* The threads that c waits for, directly or through others.
RECURSIVE Upstream(_, _)
Upstream(S, n) ==
  IF n = 0 THEN S
  ELSE Upstream(S \cup {d \in LockThreads : \E c \in S : WaitsFor(c, d)}, n - 1)

\* C38: a thread that holds the queue mutex holds it as its innermost
\* lock and locks nothing before it has unlocked it; a thread that locks a
\* mutex while holding another holds exactly one, not the queue mutex, and
\* locks the queue mutex; no thread waits, directly or through others, for
\* a mutex it holds itself or for itself, and whenever an operation is in
\* progress some thread can take its next step.
C38_LockOrder ==
  /\ [](\A c \in LockThreads :
          /\ owner["queue"] = c => NextStep(c) = <<"unlock", "queue">>
          /\ (NextStep(c) # <<>> /\ NextStep(c)[1] = "lock" /\ HeldBy(c) # {})
                => /\ NextStep(c)[2] = "queue"
                   /\ Cardinality(HeldBy(c)) = 1 /\ "queue" \notin HeldBy(c))
  /\ [](\A c \in LockThreads :
          c \notin Upstream({d \in LockThreads : WaitsFor(c, d)}, Cardinality(LockThreads)))
  /\ []((\E c \in LockThreads : op[c] # "none")
          => \E c \in LockThreads : ENABLED (Lock(c) \/ Unlock(c)))

\* A worker inside AsyncMutex::unlock holds wait_mtx_ and waits for the
\* queue mutex, which the reactor holds inside its timer pass, while another
\* worker waits for wait_mtx_.
C38_Witness ==
  /\ \E c \in Workers : op[c] = "unlock_pass" /\ owner["wait"] = c /\ BlockedOn(c, "queue")
  /\ op[ReactorThread] = "timer_pass" /\ owner["queue"] = ReactorThread
  /\ \E c \in Workers : BlockedOn(c, "wait")

====
